---- MODULE Spec2Model ----
(***************************************************************************)
(* GhostFeed content script (src/src/contentScript.js) and the editor      *)
(* panel's persistence calls (src/unnamed/part_001) as a state machine.    *)
(*                                                                         *)
(* Playback rates are fixed-point integers: a rate r is held as            *)
(* r * RateScale, so 1x is 10000, 0.0625x is 625 and 0.01 is 100.          *)
(* Texts (what localStorage holds, what the custom input shows) are        *)
(* sequences of one-character strings.  Times are milliseconds.            *)
(* A handler names an intermediate result with \E x \in {e}, which binds   *)
(* x to the one value of e.                                                *)
(***************************************************************************)
EXTENDS Integers, Sequences, FiniteSets, TLC

VARIABLES
    DEFAULT_SETTINGS,             \* the DEFAULT_SETTINGS object (a const binding, a mutable object)
    currentSettings,              \* the snapshot object currentSettings refers to
    settingsIsDefaults,           \* TRUE when currentSettings refers to the DEFAULT_SETTINGS object itself
    playbackWatcherIntervalId,    \* 0 is null; otherwise the id setInterval returned
    activeIntervals,              \* ids of the interval timers that are scheduled and not cleared
    lastUserInteractionTimestamp,
    hasUserOverriddenSpeed,
    isSpeedControlsInjected,
    contextInvalidationWarned,
    syncStore,                    \* chrome.storage.sync: a record over the keys that are set
    localStore,                   \* localStorage "ghostfeed-<key>" items: a record of texts over the keys that are set
    bodyAttrs,                    \* the data-ghostfeed-* attributes present on document.body
    videos,                       \* playbackRate of every <video>, in document order
    images,                       \* thumbnails: how many carry data-ghostfeed-blurred and how many do not
    controls,                     \* injected nodes, the host's control bar, the document-level click listeners
    timers,                       \* pending one-shot timers, per callback
    phase,                        \* position of startExtension -> initializeWithRetry -> initializeExtension
    retryCount,                   \* initializeWithRetry's retryCount
    tryInitDue,                   \* 0 when no tryInit timer is pending; otherwise the time it is due
    listening,                    \* which subscriptions initializeExtension has installed
    pendingChanges,               \* chrome.storage.onChanged notifications in flight to this page
    now,                          \* Date.now()
    edits,                        \* how many editor saves have been made (bounded)
    mediaTakesAnyRate,            \* whether the engine's media elements take a rate outside [0.0625, 16] (else they raise)
    lastOp,                       \* history: the handler that ran last, with what it saw
    manualAt,                     \* history: time of the last manual set-rate since the last new-media detection, -1 if none
    mirrored,                     \* history: the values (not their texts) last written to localStorage, per key written
    initCalls,                    \* history: how many times initializeExtension has been called
    harness                       \* inputs and results of the pure-function specifications

vars == <<DEFAULT_SETTINGS, currentSettings, settingsIsDefaults, playbackWatcherIntervalId,
          activeIntervals, lastUserInteractionTimestamp, hasUserOverriddenSpeed,
          isSpeedControlsInjected, contextInvalidationWarned, syncStore, localStore,
          bodyAttrs, videos, images, controls, timers, phase, retryCount, listening,
          pendingChanges, now, edits, mediaTakesAnyRate, lastOp, manualAt, mirrored,
          harness, tryInitDue, initCalls>>

-----------------------------------------------------------------------------
(* Bounds of the model *)

MaxVideos == 2
MaxImages == 1
MaxEdits == 1
MaxPending == 1
MaxTimers == 1
MaxRetryChains == 2
MaxClockSteps == 5

(* Program constants *)

RateScale == 10 ^ 4
gracePeriod == 5000
watcherInterval == 1000
changeGrace == 3000
customRangeMin == 1000
customRangeMax == 160000
clampMin == 625
clampMax == 160000
epsilon == 100
maxRetries == 3
retryDelay == 100
StartTime == 20 * gracePeriod

Min(a, b) == IF a < b THEN a ELSE b
Max(a, b) == IF a > b THEN a ELSE b
Abs(a) == IF a < 0 THEN -a ELSE a

-----------------------------------------------------------------------------
(* The preference schema *)

FlagKeys == {"hideHome", "hideShorts", "hideComments", "hideSidebar",
             "hideEndscreen", "hideRecs", "hideGuide", "blurThumbs"}
BoolKeys == FlagKeys \cup {"masterEnabled"}
Keys == BoolKeys \cup {"playbackRate"}

\* The object literal DEFAULT_SETTINGS is initialised with.
InitialDefaults ==
    [masterEnabled |-> TRUE, hideHome |-> TRUE, hideShorts |-> TRUE,
     hideComments |-> TRUE, hideSidebar |-> TRUE, hideEndscreen |-> TRUE,
     hideRecs |-> TRUE, hideGuide |-> FALSE, blurThumbs |-> FALSE,
     playbackRate |-> RateScale]

\* BODY_FLAG_ATTRIBUTES: the attribute of a flag is named by the flag's key;
\* "masterEnabled" names data-ghostfeed-master-enabled.
BODY_FLAG_ATTRIBUTES == FlagKeys
MasterAttr == "masterEnabled"

-----------------------------------------------------------------------------
(* Number <-> text, as Number.prototype.toString and parseFloat do it *)

Digits == <<"0", "1", "2", "3", "4", "5", "6", "7", "8", "9">>
DigitChar(d) == Digits[d + 1]
IsDigit(c) == \E d \in 0..9 : Digits[d + 1] = c
DigitVal(c) == CHOOSE d \in 0..9 : Digits[d + 1] = c

RECURSIVE NatText(_)
NatText(n) == IF n < 10 THEN <<DigitChar(n)>>
              ELSE NatText(n \div 10) \o <<DigitChar(n % 10)>>

\* The fraction f / 10^width as digits, trailing zeros dropped.
RECURSIVE FracText(_, _)
FracText(f, width) ==
    IF f = 0 \/ width = 0 THEN <<>>
    ELSE LET unit == 10 ^ (width - 1)
         IN <<DigitChar(f \div unit)>> \o FracText(f % unit, width - 1)

\* Number.prototype.toString of the rate n / RateScale.
NumberToString(n) ==
    LET a == Abs(n)
        whole == NatText(a \div RateScale)
        frac == FracText(a % RateScale, 4)
    IN (IF n < 0 THEN <<"-">> ELSE <<>>) \o whole
       \o (IF frac = <<>> THEN <<>> ELSE <<".">> \o frac)

BooleanToString(b) == IF b THEN <<"t", "r", "u", "e">> ELSE <<"f", "a", "l", "s", "e">>

\* value.toString() of a stored value.
ToText(key, value) == IF key = "playbackRate" THEN NumberToString(value)
                      ELSE BooleanToString(value)

\* Length of the longest run of digits of t starting at position i.
RECURSIVE DigitRun(_, _)
DigitRun(t, i) == IF i <= Len(t) /\ IsDigit(t[i]) THEN 1 + DigitRun(t, i + 1) ELSE 0

RECURSIVE DigitsValue(_, _, _)
DigitsValue(t, i, n) == IF n = 0 THEN 0
                        ELSE DigitsValue(t, i, n - 1) * 10 + DigitVal(t[i + n - 1])

\* The first four fraction digits of t from position i (n digits present), scaled.
FractionValue(t, i, n) ==
    LET d(k) == IF k <= n THEN DigitVal(t[i + k - 1]) ELSE 0
    IN d(1) * 1000 + d(2) * 100 + d(3) * 10 + d(4)

\* parseInt in place of parseFloat: the digits before the point only.
ParseInt(t) ==
    LET neg == Len(t) >= 1 /\ t[1] = "-"
        s == IF Len(t) >= 1 /\ t[1] \in {"-", "+"} THEN 2 ELSE 1
        nw == DigitRun(t, s)
    IN IF nw = 0 THEN [isNaN |-> TRUE, value |-> 0]
       ELSE [isNaN |-> FALSE,
             value |-> (IF neg THEN -1 ELSE 1) * DigitsValue(t, s, nw) * RateScale]

\* parseFloat: optional sign, digits, optional fraction; the longest prefix that
\* is a number; NaN when there is none.
ParseFloat(t) ==
    LET neg == Len(t) >= 1 /\ t[1] = "-"
        s == IF Len(t) >= 1 /\ t[1] \in {"-", "+"} THEN 2 ELSE 1
        nw == DigitRun(t, s)
        dot == s + nw <= Len(t) /\ t[s + nw] = "."
        nf == IF dot THEN DigitRun(t, s + nw + 1) ELSE 0
        mag == DigitsValue(t, s, nw) * RateScale + FractionValue(t, s + nw + 1, nf)
    IN IF nw = 0 /\ nf = 0 THEN [isNaN |-> TRUE, value |-> 0]
       ELSE [isNaN |-> FALSE, value |-> IF neg THEN -mag ELSE mag]

-----------------------------------------------------------------------------
(* JavaScript's reading of a snapshot object: a missing key reads as undefined *)

Has(obj, key) == key \in DOMAIN obj

\* !!obj[key] of a flag.
Truthy(obj, key) == Has(obj, key) /\ obj[key] = TRUE

\* obj.playbackRate where a number is needed; undefined reads as the falsy 0.
RateOf(obj) == IF Has(obj, "playbackRate") THEN obj.playbackRate ELSE 0

\* obj with obj[key] = value.
Put(obj, key, value) ==
    [k \in DOMAIN obj \cup {key} |-> IF k = key THEN value ELSE obj[k]]

EmptyStore == [k \in {} |-> TRUE]

-----------------------------------------------------------------------------
(* PersistenceStore *)

\* chrome.storage.sync.get(DEFAULT_SETTINGS, cb): every key of the defaults
\* object, with the stored value where one is set.
SyncGet(store, defaults) ==
    [k \in DOMAIN defaults |-> IF Has(store, k) THEN store[k] ELSE defaults[k]]

\* chrome.storage.sync.set(partial, cb) when the backend accepts the write.
SyncSet(store, partial) ==
    [k \in DOMAIN store \cup DOMAIN partial |->
        IF Has(partial, k) THEN partial[k] ELSE store[k]]

\* saveToLocalStorageBackup that skips falsy values (if (settings[key]) ...).
SaveTruthyToLocalStorage(store, settings, lsThrows) ==
    LET written == {key \in DOMAIN settings :
                       key = "playbackRate" \/ Truthy(settings, key)}
    IN IF lsThrows THEN store
       ELSE [k \in DOMAIN store \cup written |->
               IF k \in written THEN ToText(k, settings[k]) ELSE store[k]]

\* saveToLocalStorageBackup: every key as text; an exception of localStorage
\* (raised by the first setItem when the storage is not accessible) is caught.
SaveToLocalStorageBackup(store, settings, lsThrows) ==
    IF lsThrows THEN store
    ELSE [k \in DOMAIN store \cup DOMAIN settings |->
            IF Has(settings, k) THEN ToText(k, settings[k]) ELSE store[k]]

\* One key of the fallback read without the rate > 0 test.
FallbackValueAnyRate(store, defaults, key) ==
    IF ~Has(store, key) THEN defaults[key]
    ELSE IF key = "playbackRate"
         THEN LET rate == ParseFloat(store[key])
              IN IF ~rate.isNaN THEN rate.value ELSE defaults[key]
         ELSE store[key] = BooleanToString(TRUE)

\* One key of the fallback read: parseFloat with NaN and <= 0 rejected for the
\* rate, comparison with the text true for a flag.
FallbackValue(store, defaults, key) ==
    IF ~Has(store, key) THEN defaults[key]
    ELSE IF key = "playbackRate"
         THEN LET rate == ParseFloat(store[key])
              IN IF ~rate.isNaN /\ rate.value > 0 THEN rate.value ELSE defaults[key]
         ELSE store[key] = BooleanToString(TRUE)

\* loadFromLocalStorageFallback without the defaults: only what is stored, and
\* an empty object when localStorage raises.
LoadStoredOnly(store, defaults, lsThrows) ==
    IF lsThrows THEN [settings |-> EmptyStore, isDefaults |-> FALSE]
    ELSE [settings |-> [k \in {key \in DOMAIN defaults : Has(store, key)} |->
                            FallbackValue(store, defaults, k)],
          isDefaults |-> FALSE]

\* loadFromLocalStorageFallback: a copy of the defaults overlaid with what is
\* stored; the defaults object itself when localStorage raises.
LoadFromLocalStorageFallback(store, defaults, lsThrows) ==
    IF lsThrows THEN [settings |-> defaults, isDefaults |-> TRUE]
    ELSE [settings |-> [k \in DOMAIN defaults |-> FallbackValue(store, defaults, k)],
          isDefaults |-> FALSE]

\* The ways the primary backend can answer one call.
PrimaryModes == {"ok", "unavailable", "throws", "lastError"}

\* isChromeStorageAvailable, given how the primary backend answers.
IsChromeStorageAvailable(mode) == mode # "unavailable"

\* loadSettingsFromStorage: the snapshot the promise resolves with, whether it is
\* the DEFAULT_SETTINGS object, whether it came from loadFromLocalStorageFallback,
\* and localStorage afterwards (write-through mirror).
LoadSettingsFromStorage(sync, local, defaults, mode, lsThrows) ==
    IF IsChromeStorageAvailable(mode) /\ mode = "ok"
    THEN LET settings == SyncGet(sync, defaults)
         IN [settings |-> settings, isDefaults |-> FALSE, fallback |-> FALSE,
             localStore |-> SaveToLocalStorageBackup(local, settings, lsThrows)]
    ELSE LET fb == LoadFromLocalStorageFallback(local, defaults, lsThrows)
         IN [settings |-> fb.settings, isDefaults |-> fb.isDefaults, fallback |-> TRUE,
             localStore |-> local]

\* try { localStorage.setItem('ghostfeed-playbackRate', speed.toString()) } catch {}
SetItemGuarded(local, speed, lsThrows) ==
    [localStore |-> IF lsThrows THEN local
                    ELSE Put(local, "playbackRate", NumberToString(speed)),
     raised |-> FALSE]

\* The save of setVideoSpeed (lines 832-862): the stores afterwards, whether the
\* primary write took effect, whether an exception left the save.
SaveRate(sync, local, speed, mode, lsThrows) ==
    IF mode = "ok"
    THEN [syncStore |-> SyncSet(sync, [playbackRate |-> speed]), localStore |-> local,
          written |-> TRUE, raised |-> FALSE]
    ELSE LET fb == SetItemGuarded(local, speed, lsThrows)
         IN [syncStore |-> sync, localStore |-> fb.localStore,
             written |-> FALSE, raised |-> fb.raised]

\* save(partial) of the editor panel: chrome.storage.sync.set(partial, resolve).
\* No probe, no lastError check, no secondary write.
EditorSaveStore(sync, partial, mode) ==
    IF mode = "ok" THEN SyncSet(sync, partial) ELSE sync

-----------------------------------------------------------------------------
(* FlagReconciler *)

\* applyThumbnailBlur with toggleAttribute in place of the hasAttribute guard
\* and setAttribute.
ToggleThumbnailBlur(imgs) == [blurred |-> imgs.plain, plain |-> imgs.blurred]

\* applyThumbnailBlur: every thumbnail without the marker gets it.
ApplyThumbnailBlur(imgs) == [blurred |-> imgs.blurred + imgs.plain, plain |-> 0]

\* removeThumbnailBlur that finds no thumbnail (a selector that matches none).
KeepThumbnailBlur(imgs) == imgs

\* removeThumbnailBlur: every marked thumbnail loses the marker.
RemoveThumbnailBlur(imgs) == [blurred |-> 0, plain |-> imgs.plain + imgs.blurred]

\* The attribute loop without the master gate: a feature marker follows its
\* flag alone.
BodyAttrsUngated(settings, attrs) ==
    LET afterMaster == IF Truthy(settings, "masterEnabled")
                       THEN attrs \cup {MasterAttr} ELSE attrs \ {MasterAttr}
    IN (afterMaster \ {k \in BODY_FLAG_ATTRIBUTES : ~Truthy(settings, k)})
       \cup {k \in BODY_FLAG_ATTRIBUTES : Truthy(settings, k)}

\* The attribute loop of applyBodyFlags.
BodyAttrsAfter(settings, attrs) ==
    LET isEnabled == Truthy(settings, "masterEnabled")
        afterMaster == IF isEnabled THEN attrs \cup {MasterAttr} ELSE attrs \ {MasterAttr}
        toSet == {k \in BODY_FLAG_ATTRIBUTES : isEnabled /\ Truthy(settings, k)}
        toRemove == {k \in BODY_FLAG_ATTRIBUTES : ~isEnabled \/ ~Truthy(settings, k)}
    IN (afterMaster \ toRemove) \cup toSet

\* applyBodyFlags that blurs whenever master is on, whatever blurThumbs is.
ApplyBodyFlagsBlurOnMaster(settings, attrs, imgs) ==
    [bodyAttrs |-> BodyAttrsAfter(settings, attrs),
     images |-> IF Truthy(settings, "masterEnabled")
                THEN ApplyThumbnailBlur(imgs) ELSE RemoveThumbnailBlur(imgs)]

\* applyBodyFlags
ApplyBodyFlags(settings, attrs, imgs) ==
    [bodyAttrs |-> BodyAttrsAfter(settings, attrs),
     images |-> IF Truthy(settings, "masterEnabled") /\ Truthy(settings, "blurThumbs")
                THEN ApplyThumbnailBlur(imgs) ELSE RemoveThumbnailBlur(imgs)]

-----------------------------------------------------------------------------
(* RateEnforcer *)

\* Math.max(0.0625, Math.min(16, playbackRate))
Clamp(playbackRate) == Max(clampMin, Min(clampMax, playbackRate))

\* The rates a media element takes without raising NotSupportedError.
Supported(rate) == rate = 0 \/ (clampMin <= rate /\ rate <= clampMax)

\* The forEach writing every element whose rate is not the clamped target,
\* however close it is.
EnforceExactly(i, vids, override, playbackRate, elapsed) ==
    LET off(k) == k >= i /\ vids[k] # Clamp(playbackRate)
    IN IF override /\ elapsed < gracePeriod
       THEN [videos |-> vids, hasOverride |-> override]
       ELSE [videos |-> [k \in 1..Len(vids) |->
                           IF off(k) THEN Clamp(playbackRate) ELSE vids[k]],
             hasOverride |-> override /\ ~(\E k \in 1..Len(vids) : off(k))]

\* The forEach without its early return inside the grace window.
EnforceIgnoringGrace(i, vids, override, playbackRate, elapsed) ==
    LET far(k) == k >= i /\ Abs(vids[k] - Clamp(playbackRate)) > epsilon
    IN [videos |-> [k \in 1..Len(vids) |-> IF far(k) THEN Clamp(playbackRate) ELSE vids[k]],
        hasOverride |-> override /\ ~(\E k \in 1..Len(vids) : far(k))]

\* The forEach of applyPlaybackRateToVideos from element i on.
RECURSIVE EnforceFrom(_, _, _, _, _)
EnforceFrom(i, vids, override, playbackRate, elapsed) ==
    IF i > Len(vids) THEN [videos |-> vids, hasOverride |-> override]
    ELSE IF override /\ elapsed < gracePeriod
         THEN EnforceFrom(i + 1, vids, override, playbackRate, elapsed)
         ELSE IF Abs(vids[i] - Clamp(playbackRate)) > epsilon
              THEN EnforceFrom(i + 1, [vids EXCEPT ![i] = Clamp(playbackRate)], FALSE,
                               playbackRate, elapsed)
              ELSE EnforceFrom(i + 1, vids, override, playbackRate, elapsed)

\* applyPlaybackRateToVideos that clears the override flag on every pass with
\* master on, whether or not it writes a rate.
ApplyPlaybackRateClearingOverride(playbackRate, settings, vids, override, elapsed) ==
    IF ~Truthy(settings, "masterEnabled") THEN [videos |-> vids, hasOverride |-> override]
    ELSE [videos |-> EnforceFrom(1, vids, override, playbackRate, elapsed).videos,
          hasOverride |-> FALSE]

\* applyPlaybackRateToVideos(playbackRate)
ApplyPlaybackRateToVideos(playbackRate, settings, vids, override, elapsed) ==
    IF ~Truthy(settings, "masterEnabled") THEN [videos |-> vids, hasOverride |-> override]
    ELSE EnforceFrom(1, vids, override, playbackRate, elapsed)

\* currentSettings.playbackRate || 1
TargetRate(settings) == IF RateOf(settings) # 0 THEN RateOf(settings) ELSE RateScale

\* applySettingsImmediately(settings), settings being currentSettings.  accepts:
\* whether the element takes a rate it does not support (otherwise the
\* assignment raises and the rest of the caller is skipped).
ApplySettingsImmediately(settings, attrs, imgs, vids, accepts) ==
    LET flags == ApplyBodyFlags(settings, attrs, imgs)
        rate == RateOf(settings)
        base == [bodyAttrs |-> flags.bodyAttrs, images |-> flags.images,
                 videos |-> vids, settings |-> settings, threw |-> FALSE]
    IN IF ~Truthy(settings, "masterEnabled")
       THEN [base EXCEPT !.videos = [i \in 1..Len(vids) |-> RateScale]]
       ELSE IF vids = <<>> THEN base
       ELSE IF rate # 0 /\ rate # RateScale
            THEN IF Supported(rate) \/ accepts
                 THEN [base EXCEPT !.videos = [vids EXCEPT ![1] = rate]]
                 ELSE [base EXCEPT !.threw = TRUE]
            ELSE [base EXCEPT !.settings = Put(settings, "playbackRate", vids[1])]

-----------------------------------------------------------------------------
(* RateEnforcer timer, ControlInjector *)

\* startPlaybackRateWatcher without its clearInterval.
StartWatcherWithoutClear(settings, id, active) ==
    LET fresh == CHOOSE n \in 1..(Cardinality(active) + 1) : n \notin active
    IN IF ~Truthy(settings, "masterEnabled")
       THEN [playbackWatcherIntervalId |-> id, activeIntervals |-> active]
       ELSE [playbackWatcherIntervalId |-> fresh, activeIntervals |-> active \cup {fresh}]

\* startPlaybackRateWatcher: the interval the id names is cleared, and a new one
\* is created only when the master flag is on.
StartPlaybackRateWatcher(settings, id, active) ==
    LET cleared == IF id # 0 THEN active \ {id} ELSE active
        fresh == CHOOSE n \in 1..(Cardinality(cleared) + 1) : n \notin cleared
    IN IF ~Truthy(settings, "masterEnabled")
       THEN [playbackWatcherIntervalId |-> id, activeIntervals |-> cleared]
       ELSE [playbackWatcherIntervalId |-> fresh, activeIntervals |-> cleared \cup {fresh}]

\* injectSpeedButton without its test for an existing button.
InjectSpeedButtonUnchecked(ctl, vids) ==
    IF ~ctl.anchor \/ vids = <<>> THEN ctl
    ELSE [ctl EXCEPT !.buttons = ctl.buttons + 1]

\* injectSpeedButton: one button into the host's control bar, if the bar and a
\* media element exist and no button does.
InjectSpeedButton(ctl, vids) ==
    IF ~ctl.anchor \/ ctl.buttons > 0 \/ vids = <<>> THEN ctl
    ELSE [ctl EXCEPT !.buttons = ctl.buttons + 1]

\* tryInjectButton: inject, and schedule a retry while no button exists.
TryInjectButton(ctl, tms, vids) ==
    LET after == InjectSpeedButton(ctl, vids)
    IN [controls |-> after,
        timers |-> IF after.buttons = 0 THEN [tms EXCEPT !.retry = tms.retry + 1] ELSE tms]

\* createSpeedMenu whose setupSpeedMenuEvents adds the outside-click listener
\* each time it runs.
CreateSpeedMenuListeningAgain(ctl) ==
    IF ctl.menu THEN ctl
    ELSE [ctl EXCEPT !.menu = TRUE, !.clickListeners = @ + 1, !.clickSetup = TRUE]

\* createSpeedMenu with setupSpeedMenuEvents: the popover, and the document-level
\* outside-click listener behind its once-only guard.
CreateSpeedMenu(ctl) ==
    IF ctl.menu THEN ctl
    ELSE [ctl EXCEPT !.menu = TRUE,
                     !.clickListeners = IF ctl.clickSetup THEN @ ELSE @ + 1,
                     !.clickSetup = TRUE]

\* injectSpeedControls without its guard on the mounted flag.
InjectSpeedControlsUnguarded(injected, ctl, tms, vids) ==
    LET withMenu == CreateSpeedMenu([ctl EXCEPT !.styles = TRUE])
        tried == TryInjectButton(withMenu, tms, vids)
    IN [isSpeedControlsInjected |-> TRUE, controls |-> tried.controls,
        timers |-> tried.timers]

\* injectSpeedControls
InjectSpeedControls(injected, ctl, tms, vids) ==
    IF injected THEN [isSpeedControlsInjected |-> injected, controls |-> ctl, timers |-> tms]
    ELSE LET withMenu == CreateSpeedMenu([ctl EXCEPT !.styles = TRUE])
             tried == TryInjectButton(withMenu, tms, vids)
         IN [isSpeedControlsInjected |-> TRUE, controls |-> tried.controls,
             timers |-> tried.timers]

\* cleanupSpeedControls: the style node, the popover and the first button.
CleanupSpeedControls(ctl) ==
    [ctl EXCEPT !.styles = FALSE, !.menu = FALSE,
                !.buttons = IF @ > 0 THEN @ - 1 ELSE 0]

-----------------------------------------------------------------------------
(* History *)

NoText == <<>>

\* The record of a handler run: its name, the override flag, the mounted flag
\* and the number of injected buttons it found, and
\* fields that keep these values when the handler does not use them.
Op(name) == [name |-> name, hadOverride |-> hasUserOverriddenSpeed,
             hadControls |-> [mounted |-> isSpeedControlsInjected,
                              buttons |-> controls.buttons],
             wasEnabled |-> FALSE, inGrace |-> FALSE, invoked |-> FALSE, area |-> "none",
             raised |-> FALSE, threw |-> FALSE, entry |-> NoText, shown |-> NoText,
             fallback |-> FALSE, secondaryRead |-> FALSE, loaded |-> EmptyStore,
             saved |-> EmptyStore, primaryFailed |-> FALSE, secondaryFailed |-> FALSE,
             speed |-> [isNaN |-> TRUE, value |-> 0]]

\* Date.now() - lastUserInteractionTimestamp
Elapsed == now - lastUserInteractionTimestamp

\* The history record of a handler that has called loadSettingsFromStorage.
LoadOp(name, ld, lsThrows) ==
    [Op(name) EXCEPT !.fallback = ld.fallback,
                     !.secondaryRead = ld.fallback /\ ~lsThrows,
                     !.secondaryFailed = lsThrows,
                     !.loaded = ld.settings]

\* mirrored after loadSettingsFromStorage.
MirroredAfterLoad(ld, lsThrows) ==
    IF ~ld.fallback /\ ~lsThrows THEN SyncSet(mirrored, ld.settings) ELSE mirrored

\* The in-place write currentSettings.playbackRate = ... reaches DEFAULT_SETTINGS
\* when both names refer to the same object.
DefaultsAfter(settings) == IF settingsIsDefaults THEN settings ELSE DEFAULT_SETTINGS

-----------------------------------------------------------------------------
(* Inputs *)

\* Rates the host page or its native menu gives a media element.
HostRates == {RateScale, 25000}
Rate25 == 25000
\* Preset items of the popover that are clicked (of presetSpeeds).
PresetSpeeds == {RateScale, 25000}
\* Texts confirmed in the custom input.
CustomEntries == {<<"2", "0">>, <<"1", "6">>, <<"0", ".", "1">>, <<"0", ".", "0", "5">>,
                  <<"a", "b", "c">>}
\* parseFloat(customInput.value) of each of them.
ParsedEntry == [entry \in CustomEntries |-> ParseFloat(entry)]
\* The two ranges a stored rate can miss: above 16 and below 0.0625.
RateAbove == 20 * RateScale
RateBelow == RateScale \div 20

-----------------------------------------------------------------------------
(* The state after the script is evaluated, before startExtension runs *)

ProgramInit(syncStores, engines) ==
    /\ DEFAULT_SETTINGS = InitialDefaults
    /\ currentSettings = InitialDefaults
    /\ settingsIsDefaults = FALSE
    /\ playbackWatcherIntervalId = 0
    /\ activeIntervals = {}
    /\ lastUserInteractionTimestamp = 0
    /\ hasUserOverriddenSpeed = FALSE
    /\ isSpeedControlsInjected = FALSE
    /\ contextInvalidationWarned = FALSE
    /\ syncStore \in syncStores
    /\ localStore = EmptyStore
    /\ bodyAttrs = {}
    /\ videos = <<>>
    /\ images = [blurred |-> 0, plain |-> 0]
    /\ controls = [styles |-> FALSE, menu |-> FALSE, buttons |-> 0, anchor |-> FALSE,
                   clickSetup |-> FALSE, clickListeners |-> 0]
    /\ timers = [remount |-> 0, retry |-> 0, blur |-> 0]
    /\ phase = "boot"
    /\ retryCount = 0
    /\ tryInitDue = 0
    /\ initCalls = 0
    /\ listening = [navigation |-> FALSE, observer |-> FALSE, storage |-> FALSE]
    /\ pendingChanges = 0
    /\ now = StartTime
    /\ edits = 0
    /\ mediaTakesAnyRate \in engines
    /\ lastOp = Op("none")
    /\ manualAt = -1
    /\ mirrored = EmptyStore

\* The pure-function specifications use harness; the program leaves it alone.
NoHarness == [kind |-> "program"]

InitWith(syncStores, engines) ==
    /\ ProgramInit(syncStores, engines)
    /\ harness = NoHarness

-----------------------------------------------------------------------------
(* Groups of variables *)

settingsVars == <<DEFAULT_SETTINGS, currentSettings, settingsIsDefaults>>
watcherVars == <<playbackWatcherIntervalId, activeIntervals>>
interactionVars == <<lastUserInteractionTimestamp, hasUserOverriddenSpeed, manualAt>>
storeVars == <<syncStore, localStore, mirrored>>
domVars == <<bodyAttrs, videos, images>>
injectVars == <<isSpeedControlsInjected, controls, timers>>
bootVars == <<phase, retryCount, tryInitDue, initCalls, listening>>
envVars == <<now, edits, mediaTakesAnyRate, harness>>

TimersWithinBound(tms) ==
    tms.remount <= MaxTimers /\ tms.retry <= MaxRetryChains /\ tms.blur <= MaxTimers

-----------------------------------------------------------------------------
(* Startup: startExtension, initializeWithRetry, initializeExtension *)

\* The condition of tryInit that gives up retrying one retry late.
ProceedsAfterOneMore(probeOk, count) == probeOk \/ count > maxRetries

\* The condition under which tryInit calls initializeExtension.
ProceedsToInit(probeOk, count) == probeOk \/ count >= maxRetries

\* initializeWithRetry: initialize at once when the probe succeeds, otherwise
\* call tryInit, which probes again with the same answer, counts a retry and
\* schedules itself.
InitializeWithRetry(probeOk) ==
    /\ phase = "boot"
    /\ IF probeOk
       THEN /\ phase' = "loading"
            /\ initCalls' = initCalls + 1
            /\ UNCHANGED <<retryCount, tryInitDue>>
       ELSE /\ phase' = "retrying"
            /\ retryCount' = retryCount + 1
            /\ tryInitDue' = now + retryDelay
            /\ UNCHANGED initCalls
    /\ lastOp' = [Op("initializeWithRetry") EXCEPT !.primaryFailed = ~probeOk]
    /\ UNCHANGED <<settingsVars, watcherVars, interactionVars, storeVars, domVars,
                   injectVars, listening, envVars, contextInvalidationWarned,
                   pendingChanges>>

\* tryInit, run by its timer once the timer is due.
TryInit(probeOk) ==
    /\ tryInitDue # 0
    /\ now' = IF now < tryInitDue THEN tryInitDue ELSE now
    /\ IF ProceedsToInit(probeOk, retryCount)
       THEN /\ phase' = IF probeOk THEN "loading" ELSE "loadingFallback"
            /\ initCalls' = initCalls + 1
            /\ tryInitDue' = 0
            /\ UNCHANGED retryCount
       ELSE /\ retryCount' = retryCount + 1
            /\ tryInitDue' = now' + retryDelay
            /\ UNCHANGED <<phase, initCalls>>
    /\ lastOp' = [Op("tryInit") EXCEPT !.primaryFailed = ~probeOk]
    /\ UNCHANGED <<settingsVars, watcherVars, interactionVars, storeVars, domVars,
                   injectVars, listening, edits, mediaTakesAnyRate, harness,
                   contextInvalidationWarned, pendingChanges>>

\* The tryInit timer is late: time passes beyond the moment it is due.
TryInitLate ==
    /\ tryInitDue # 0
    /\ now <= tryInitDue
    /\ now' = tryInitDue + retryDelay \div 2
    /\ lastOp' = Op("tryInitLate")
    /\ UNCHANGED <<settingsVars, watcherVars, interactionVars, storeVars, domVars,
                   injectVars, bootVars, edits, mediaTakesAnyRate, harness,
                   contextInvalidationWarned, pendingChanges>>

\* initializeExtension from the point its load resolves.  An exception of
\* applySettingsImmediately is caught by the function's try/catch: nothing
\* after it runs.
InitializeExtension(mode, lsThrows) ==
    /\ \/ phase = "loading" /\ mode # "unavailable"
       \/ phase = "loadingFallback" /\ mode = "unavailable"
    /\ \E ld \in {LoadSettingsFromStorage(syncStore, localStore, DEFAULT_SETTINGS, mode,
                                            lsThrows)} :
       \E r \in {ApplySettingsImmediately(ld.settings, bodyAttrs, images, videos,
                                          mediaTakesAnyRate)} :
       LET w == StartPlaybackRateWatcher(r.settings, playbackWatcherIntervalId, activeIntervals)
           inj == IF Truthy(r.settings, "masterEnabled")
                  THEN InjectSpeedControls(isSpeedControlsInjected, controls, timers, r.videos)
                  ELSE [isSpeedControlsInjected |-> isSpeedControlsInjected,
                        controls |-> controls, timers |-> timers]
       IN /\ currentSettings' = r.settings
          /\ settingsIsDefaults' = ld.isDefaults
          /\ DEFAULT_SETTINGS' = IF ld.isDefaults THEN r.settings ELSE DEFAULT_SETTINGS
          /\ localStore' = ld.localStore
          /\ mirrored' = MirroredAfterLoad(ld, lsThrows)
          /\ bodyAttrs' = r.bodyAttrs
          /\ images' = r.images
          /\ videos' = r.videos
          /\ lastOp' = [LoadOp("initializeExtension", ld, lsThrows) EXCEPT !.threw = r.threw]
          /\ IF r.threw
             THEN /\ phase' = "failed"
                  /\ UNCHANGED <<watcherVars, injectVars, listening>>
             ELSE /\ phase' = "running"
                  /\ playbackWatcherIntervalId' = w.playbackWatcherIntervalId
                  /\ activeIntervals' = w.activeIntervals
                  /\ isSpeedControlsInjected' = inj.isSpeedControlsInjected
                  /\ controls' = inj.controls
                  /\ timers' = inj.timers
                  /\ TimersWithinBound(inj.timers)
                  /\ listening' = [navigation |-> TRUE, observer |-> TRUE,
                                   storage |-> IsChromeStorageAvailable(mode)]
    /\ UNCHANGED <<interactionVars, syncStore, retryCount, tryInitDue, initCalls, envVars,
                   contextInvalidationWarned, pendingChanges>>

-----------------------------------------------------------------------------
(* RateEnforcer tick, NavigationBridge, ChangeBridge *)

\* The interval callback of startPlaybackRateWatcher.
WatcherTick ==
    /\ activeIntervals # {}
    /\ LET e == ApplyPlaybackRateToVideos(TargetRate(currentSettings), currentSettings,
                                          videos, hasUserOverriddenSpeed, Elapsed)
       IN /\ videos' = e.videos
          /\ hasUserOverriddenSpeed' = e.hasOverride
    /\ lastOp' = [Op("watcherTick") EXCEPT
                     !.inGrace = hasUserOverriddenSpeed /\ Elapsed < gracePeriod]
    /\ UNCHANGED <<settingsVars, watcherVars, lastUserInteractionTimestamp, manualAt,
                   storeVars, bodyAttrs, images, injectVars, bootVars, envVars,
                   contextInvalidationWarned, pendingChanges>>

\* reapplySettings, the listener of yt-navigate-finish and yt-page-data-updated.
ReapplySettings ==
    /\ listening.navigation
    /\ LET r == ApplySettingsImmediately(currentSettings, bodyAttrs, images, videos,
                                         mediaTakesAnyRate)
       IN /\ currentSettings' = r.settings
          /\ DEFAULT_SETTINGS' = DefaultsAfter(r.settings)
          /\ bodyAttrs' = r.bodyAttrs
          /\ images' = r.images
          /\ videos' = r.videos
          /\ lastOp' = [Op("reapplySettings") EXCEPT !.threw = r.threw]
    /\ UNCHANGED <<settingsIsDefaults, watcherVars, interactionVars, storeVars,
                   injectVars, bootVars, envVars, contextInvalidationWarned,
                   pendingChanges>>

\* A handler that returns at a guard, before it changes anything.
HandlerOnly(op) ==
    /\ lastOp' = op
    /\ UNCHANGED <<settingsVars, watcherVars, interactionVars, storeVars, domVars,
                   injectVars, bootVars, envVars, contextInvalidationWarned,
                   pendingChanges>>

\* The guard of handleStorageChanges that acts on every storage area.
ActsOnAnyArea(area) == area = area

\* The guard of handleStorageChanges: only the sync area is acted upon.
ActsOnArea(area) == area = "sync"

\* The callback of the load in handleStorageChanges.
HandleSyncChange(area, mode, lsThrows) ==
    /\ \E ld \in {LoadSettingsFromStorage(syncStore, localStore, DEFAULT_SETTINGS, mode,
                                            lsThrows)} :
       \E inGrace \in {hasUserOverriddenSpeed /\ Elapsed < changeGrace} :
       \E flags \in {ApplyBodyFlags(ld.settings, bodyAttrs, images)} :
       \E r \in {IF inGrace
                  THEN [bodyAttrs |-> flags.bodyAttrs, images |-> flags.images,
                        videos |-> videos, settings |-> ld.settings, threw |-> FALSE]
                  ELSE ApplySettingsImmediately(ld.settings, bodyAttrs, images, videos,
                                                mediaTakesAnyRate)} :
       LET wasEnabled == Truthy(currentSettings, "masterEnabled")
           wasBlurEnabled == Truthy(currentSettings, "blurThumbs")
           isEnabled == Truthy(r.settings, "masterEnabled")
           isBlurEnabled == Truthy(r.settings, "blurThumbs")
           w == StartPlaybackRateWatcher(r.settings, playbackWatcherIntervalId, activeIntervals)
           inj == IF isEnabled /\ ~wasEnabled
                  THEN InjectSpeedControls(isSpeedControlsInjected, controls, timers, r.videos)
                  ELSE IF ~isEnabled /\ wasEnabled
                  THEN [isSpeedControlsInjected |-> FALSE,
                        controls |-> CleanupSpeedControls(controls), timers |-> timers]
                  ELSE [isSpeedControlsInjected |-> isSpeedControlsInjected,
                        controls |-> controls, timers |-> timers]
           blurChanged == isBlurEnabled # wasBlurEnabled
       IN /\ currentSettings' = r.settings
          /\ settingsIsDefaults' = ld.isDefaults
          /\ DEFAULT_SETTINGS' = IF ld.isDefaults THEN r.settings ELSE DEFAULT_SETTINGS
          /\ localStore' = ld.localStore
          /\ mirrored' = MirroredAfterLoad(ld, lsThrows)
          /\ bodyAttrs' = r.bodyAttrs
          /\ lastOp' = [LoadOp("handleStorageChanges", ld, lsThrows) EXCEPT
                           !.threw = r.threw, !.area = area,
                           !.wasEnabled = wasEnabled, !.inGrace = inGrace]
          /\ IF r.threw
             THEN /\ images' = r.images
                  /\ videos' = r.videos
                  /\ UNCHANGED <<watcherVars, injectVars>>
             ELSE /\ playbackWatcherIntervalId' = w.playbackWatcherIntervalId
                  /\ activeIntervals' = w.activeIntervals
                  /\ isSpeedControlsInjected' = inj.isSpeedControlsInjected
                  /\ controls' = inj.controls
                  /\ timers' = IF blurChanged /\ isEnabled /\ isBlurEnabled
                               THEN [inj.timers EXCEPT !.blur = @ + 1] ELSE inj.timers
                  /\ TimersWithinBound(timers')
                  /\ images' = IF blurChanged /\ ~(isEnabled /\ isBlurEnabled)
                               THEN RemoveThumbnailBlur(r.images) ELSE r.images
                  /\ videos' = IF wasEnabled /\ ~isEnabled
                               THEN [i \in 1..Len(r.videos) |-> RateScale] ELSE r.videos
    /\ pendingChanges' = IF area = "sync" THEN pendingChanges - 1 ELSE pendingChanges
    /\ UNCHANGED <<interactionVars, syncStore, bootVars, envVars,
                   contextInvalidationWarned>>

\* handleStorageChanges(changes, area): a notification of the sync area is one
\* of the pending ones; a notification of another area comes from a write
\* made elsewhere.  The handler returns at its guard or starts the load.
HandleStorageChanges(area, mode, lsThrows) ==
    /\ listening.storage
    /\ area = "sync" => pendingChanges > 0
    /\ IF ActsOnArea(area)
       THEN HandleSyncChange(area, mode, lsThrows)
       ELSE HandlerOnly([Op("handleStorageChanges") EXCEPT !.area = area])

-----------------------------------------------------------------------------
(* ControlInjector: selection handling *)

\* A number as parseFloat returns it.
Number(value) == [isNaN |-> FALSE, value |-> value]
NotANumber == [isNaN |-> TRUE, value |-> 0]

\* The validation of setVideoSpeed that accepts every number.
IsNumber(parsed) == ~parsed.isNaN

\* The validation of setVideoSpeed: a number, not NaN, strictly positive.
IsValidSpeed(parsed) == ~parsed.isNaN /\ parsed.value > 0

\* setVideoSpeed(speed), the speed as parseFloat returned it; op is the history
\* record of the calling handler.  Every valid speed passed is a rate the
\* element supports (a preset, or an entry within customRange), so the
\* assignment to the element does not raise.
SetVideoSpeed(parsed, mode, lsThrows, op) ==
    /\ contextInvalidationWarned' =
           (contextInvalidationWarned \/ ~IsChromeStorageAvailable(mode))
    /\ IF videos = <<>> \/ ~IsValidSpeed(parsed)
       THEN /\ lastOp' = [op EXCEPT !.invoked = TRUE, !.speed = parsed]
            /\ UNCHANGED <<settingsVars, interactionVars, storeVars, videos,
                           pendingChanges>>
       ELSE LET speed == parsed.value
                saved == SaveRate(syncStore, localStore, speed, mode, lsThrows)
                settings == Put(currentSettings, "playbackRate", speed)
                notified == listening.storage /\ saved.syncStore # syncStore
            IN /\ lastUserInteractionTimestamp' = now
               /\ hasUserOverriddenSpeed' = TRUE
               /\ manualAt' = now
               /\ videos' = [videos EXCEPT ![1] = speed]
               /\ currentSettings' = settings
               /\ DEFAULT_SETTINGS' = DefaultsAfter(settings)
               /\ syncStore' = saved.syncStore
               /\ localStore' = saved.localStore
               /\ mirrored' = IF ~saved.written /\ ~lsThrows
                              THEN Put(mirrored, "playbackRate", speed) ELSE mirrored
               /\ pendingChanges' = IF notified THEN pendingChanges + 1 ELSE pendingChanges
               /\ pendingChanges' <= MaxPending
               /\ lastOp' = [op EXCEPT !.invoked = TRUE, !.raised = saved.raised,
                                       !.speed = parsed,
                                       !.saved = [playbackRate |-> speed],
                                       !.primaryFailed = ~saved.written,
                                       !.secondaryFailed = (~saved.written /\ lsThrows)]
               /\ UNCHANGED settingsIsDefaults
    /\ UNCHANGED <<watcherVars, bodyAttrs, images, injectVars, bootVars, envVars>>

\* setVideoSpeed(speed) called directly, whatever the page holds.
SetVideoSpeedCall(parsed, mode, lsThrows) ==
    SetVideoSpeed(parsed, mode, lsThrows, Op("setVideoSpeed"))

\* The range check of the custom input's handlers.
InCustomRange(parsed) ==
    ~parsed.isNaN /\ parsed.value >= customRangeMin /\ parsed.value <= customRangeMax

\* Click on a preset item of the popover.
PresetClick(speed, mode, lsThrows) ==
    /\ controls.menu
    /\ LET op == Op("presetClick")
       IN IF videos = <<>> THEN HandlerOnly(op)
          ELSE SetVideoSpeed(Number(speed), mode, lsThrows, op)

\* The change event of the custom input holding entry.  shown: the input's value
\* when the handler has rejected the entry.
CustomInputChange(entry, mode, lsThrows) ==
    /\ controls.menu
    /\ LET speed == ParsedEntry[entry]
           op == [Op("customInputChange") EXCEPT !.entry = entry]
       IN IF InCustomRange(speed)
          THEN IF videos = <<>> THEN HandlerOnly(op)
               ELSE SetVideoSpeed(speed, mode, lsThrows, op)
          ELSE HandlerOnly([op EXCEPT !.shown = IF videos # <<>>
                                                THEN NumberToString(videos[1])
                                                ELSE entry])

\* The keydown event of the custom input holding entry, the key being Enter.
CustomInputEnter(entry, mode, lsThrows) ==
    /\ controls.menu
    /\ LET speed == ParsedEntry[entry]
           op == [Op("customInputEnter") EXCEPT !.entry = entry]
       IN IF InCustomRange(speed)
          THEN IF videos = <<>> THEN HandlerOnly(op)
               ELSE SetVideoSpeed(speed, mode, lsThrows, op)
          ELSE HandlerOnly([op EXCEPT !.shown = entry])

\* save({[id]: val}) of the editor panel, and the notification it causes here.
EditorSave(id, val, mode) ==
    /\ edits < MaxEdits
    /\ edits' = edits + 1
    /\ syncStore' = EditorSaveStore(syncStore, [k \in {id} |-> val], mode)
    /\ pendingChanges' = IF listening.storage /\ syncStore' # syncStore
                         THEN pendingChanges + 1 ELSE pendingChanges
    /\ pendingChanges' <= MaxPending
    /\ lastOp' = [Op("editorSave") EXCEPT !.saved = [k \in {id} |-> val],
                                          !.primaryFailed = (mode # "ok")]
    /\ UNCHANGED <<settingsVars, watcherVars, interactionVars, localStore, mirrored,
                   domVars, injectVars, bootVars, now, mediaTakesAnyRate, harness,
                   contextInvalidationWarned>>

-----------------------------------------------------------------------------
(* StructureWatcher, the host page, timers *)

\* handleNewVideoDetected that leaves the interaction state as it finds it.
HandleNewVideoKeepingOverride(settings, vids, override, stamp, time) ==
    LET e == ApplyPlaybackRateToVideos(TargetRate(settings), settings, vids, override,
                                       time - stamp)
    IN [videos |-> e.videos, hasOverride |-> e.hasOverride,
        lastUserInteractionTimestamp |-> stamp]

\* handleNewVideoDetected up to its timer: the interaction state is reset,
\* whatever it was, and the enforcement pass runs on the reset state.
HandleNewVideoDetected(settings, vids, override, stamp, time) ==
    LET e == ApplyPlaybackRateToVideos(TargetRate(settings), settings, vids, FALSE,
                                       time - 0)
    IN [videos |-> e.videos, hasOverride |-> e.hasOverride,
        lastUserInteractionTimestamp |-> 0]

\* The host page inserts nodes: a media element with the given rate, a
\* thumbnail, or both.  When the observer is installed its callback runs:
\* handleNewVideoDetected for a media element, the delayed blur for an image.
HostInsert(withVideo, rate, withThumb) ==
    /\ withVideo \/ withThumb
    /\ withVideo => Len(videos) < MaxVideos
    /\ withThumb => images.blurred + images.plain < MaxImages
    /\ LET inserted == IF withVideo THEN Append(videos, rate) ELSE videos
           master == Truthy(currentSettings, "masterEnabled")
           newVideo == listening.observer /\ withVideo
           newThumbs == listening.observer /\ withThumb
           e == IF newVideo
                THEN HandleNewVideoDetected(currentSettings, inserted,
                                            hasUserOverriddenSpeed,
                                            lastUserInteractionTimestamp, now)
                ELSE [videos |-> inserted, hasOverride |-> hasUserOverriddenSpeed,
                      lastUserInteractionTimestamp |-> lastUserInteractionTimestamp]
       IN /\ videos' = e.videos
          /\ hasUserOverriddenSpeed' = e.hasOverride
          /\ lastUserInteractionTimestamp' = e.lastUserInteractionTimestamp
          /\ manualAt' = IF newVideo THEN -1 ELSE manualAt
          /\ images' = IF withThumb THEN [images EXCEPT !.plain = @ + 1] ELSE images
          /\ timers' = [timers EXCEPT
                           !.remount = IF newVideo /\ master THEN @ + 1 ELSE @,
                           !.blur = IF newThumbs /\ master
                                       /\ Truthy(currentSettings, "blurThumbs")
                                    THEN @ + 1 ELSE @]
          /\ TimersWithinBound(timers')
          /\ lastOp' = [Op("hostInsert") EXCEPT
                           !.invoked = newVideo,
                           !.inGrace = hasUserOverriddenSpeed /\ Elapsed < gracePeriod]
    /\ UNCHANGED <<settingsVars, watcherVars, storeVars, bodyAttrs,
                   isSpeedControlsInjected, controls, bootVars, envVars,
                   contextInvalidationWarned, pendingChanges>>

\* The host page removes media element i.
HostRemoveVideo(i) ==
    /\ i \in 1..Len(videos)
    /\ videos' = [k \in 1..(Len(videos) - 1) |-> IF k < i THEN videos[k] ELSE videos[k + 1]]
    /\ lastOp' = Op("hostRemoveVideo")
    /\ UNCHANGED <<settingsVars, watcherVars, interactionVars, storeVars, bodyAttrs,
                   images, injectVars, bootVars, envVars, contextInvalidationWarned,
                   pendingChanges>>

\* The host page (or its native speed menu) sets the rate of media element i.
HostSetRate(i, rate) ==
    /\ i \in 1..Len(videos)
    /\ videos[i] # rate
    /\ videos' = [videos EXCEPT ![i] = rate]
    /\ lastOp' = Op("hostSetRate")
    /\ UNCHANGED <<settingsVars, watcherVars, interactionVars, storeVars, bodyAttrs,
                   images, injectVars, bootVars, envVars, contextInvalidationWarned,
                   pendingChanges>>

\* The host page replaces its player in one batch of mutations: the old
\* control bar goes with whatever was inserted into it, the first media element
\* is replaced by a new one at rate 1, and a new control bar is inserted.  The
\* observer's callback runs handleNewVideoDetected when it is installed.
HostReplacePlayer ==
    /\ controls.anchor /\ videos # <<>>
    /\ LET replaced == [videos EXCEPT ![1] = RateScale]
           master == Truthy(currentSettings, "masterEnabled")
           e == IF listening.observer
                THEN HandleNewVideoDetected(currentSettings, replaced,
                                            hasUserOverriddenSpeed,
                                            lastUserInteractionTimestamp, now)
                ELSE [videos |-> replaced, hasOverride |-> hasUserOverriddenSpeed,
                      lastUserInteractionTimestamp |-> lastUserInteractionTimestamp]
       IN /\ videos' = e.videos
          /\ hasUserOverriddenSpeed' = e.hasOverride
          /\ lastUserInteractionTimestamp' = e.lastUserInteractionTimestamp
          /\ manualAt' = IF listening.observer THEN -1 ELSE manualAt
          /\ controls' = [controls EXCEPT !.buttons = 0]
          /\ timers' = [timers EXCEPT
                           !.remount = IF listening.observer /\ master THEN @ + 1 ELSE @]
          /\ TimersWithinBound(timers')
          /\ lastOp' = [Op("hostReplacePlayer") EXCEPT !.invoked = listening.observer]
    /\ UNCHANGED <<settingsVars, watcherVars, storeVars, bodyAttrs, images,
                   isSpeedControlsInjected, bootVars, envVars,
                   contextInvalidationWarned, pendingChanges>>

\* The host page mounts its player control bar (.ytp-right-controls).
HostMountControlBar ==
    /\ ~controls.anchor
    /\ controls' = [controls EXCEPT !.anchor = TRUE]
    /\ lastOp' = Op("hostMountControlBar")
    /\ UNCHANGED <<settingsVars, watcherVars, interactionVars, storeVars, domVars,
                   isSpeedControlsInjected, timers, bootVars, envVars,
                   contextInvalidationWarned, pendingChanges>>

\* The host page removes its control bar, with whatever was inserted into it.
HostRemoveControlBar ==
    /\ controls.anchor
    /\ controls' = [controls EXCEPT !.anchor = FALSE, !.buttons = 0]
    /\ lastOp' = Op("hostRemoveControlBar")
    /\ UNCHANGED <<settingsVars, watcherVars, interactionVars, storeVars, domVars,
                   isSpeedControlsInjected, timers, bootVars, envVars,
                   contextInvalidationWarned, pendingChanges>>

\* The 1000 ms timer of handleNewVideoDetected: injectSpeedControls.
RemountTimer ==
    /\ timers.remount > 0
    /\ LET inj == InjectSpeedControls(isSpeedControlsInjected, controls,
                                      [timers EXCEPT !.remount = @ - 1], videos)
       IN /\ isSpeedControlsInjected' = inj.isSpeedControlsInjected
          /\ controls' = inj.controls
          /\ timers' = inj.timers
          /\ TimersWithinBound(inj.timers)
    /\ lastOp' = Op("remountTimer")
    /\ UNCHANGED <<settingsVars, watcherVars, interactionVars, storeVars, domVars,
                   bootVars, envVars, contextInvalidationWarned, pendingChanges>>

\* The 1000 ms timer of tryInjectButton.
RetryTimer ==
    /\ timers.retry > 0
    /\ LET tried == TryInjectButton(controls, [timers EXCEPT !.retry = @ - 1], videos)
       IN /\ controls' = tried.controls
          /\ timers' = tried.timers
    /\ lastOp' = Op("retryTimer")
    /\ UNCHANGED <<settingsVars, watcherVars, interactionVars, storeVars, domVars,
                   isSpeedControlsInjected, bootVars, envVars, contextInvalidationWarned,
                   pendingChanges>>

\* The 100 ms timer that re-runs applyThumbnailBlur.
BlurTimer ==
    /\ timers.blur > 0
    /\ timers' = [timers EXCEPT !.blur = @ - 1]
    /\ images' = ApplyThumbnailBlur(images)
    /\ lastOp' = Op("blurTimer")
    /\ UNCHANGED <<settingsVars, watcherVars, interactionVars, storeVars, bodyAttrs,
                   videos, isSpeedControlsInjected, controls, bootVars, envVars,
                   contextInvalidationWarned, pendingChanges>>

\* Time passes.  Date.now() is read only as the time since the last manual
\* selection and only while the override flag is set, so the clock is advanced
\* while that reading can still change an outcome.
AdvanceClock ==
    /\ now < StartTime + MaxClockSteps * watcherInterval
    /\ hasUserOverriddenSpeed /\ Elapsed <= gracePeriod
    /\ now' = now + watcherInterval
    /\ lastOp' = Op("advanceClock")
    /\ UNCHANGED <<settingsVars, watcherVars, interactionVars, storeVars, domVars,
                   injectVars, bootVars, edits, mediaTakesAnyRate, harness,
                   contextInvalidationWarned, pendingChanges>>

-----------------------------------------------------------------------------
(* Playback: rate enforcement against manual selection.  Both stores answer  *)
(* (a primary write may report an error), the editor clears the master flag  *)
(* or one feature flag, the host page changes rates and inserts and removes  *)
(* media elements.  The host page has no thumbnails and never mounts its     *)
(* control bar.                                                              *)

InitPlayback == InitWith({EmptyStore}, {FALSE})

NextPlayback ==
    \/ InitializeWithRetry(TRUE)
    \/ InitializeExtension("ok", FALSE)
    \/ WatcherTick
    \/ ReapplySettings
    \/ HandleStorageChanges("sync", "ok", FALSE)
    \/ \E mode \in {"ok", "lastError"} : PresetClick(Rate25, mode, FALSE)
    \/ \E id \in {"masterEnabled", "hideHome"} : EditorSave(id, FALSE, "ok")
    \/ HostInsert(TRUE, RateScale, FALSE)
    \/ \E i \in 1..MaxVideos : HostRemoveVideo(i)
    \/ \E i \in 1..MaxVideos, rate \in HostRates : HostSetRate(i, rate)
    \/ RemountTimer
    \/ RetryTimer
    \/ AdvanceClock

SpecPlayback == InitPlayback /\ [][NextPlayback]_vars

\* C1: after a manual rate selection at time T (manualAt) with no new media
\* element detected since, an enforcement pass run at now - T < gracePeriod
\* leaves every media element's rate unchanged, whatever the target is; a pass
\* at now - T >= gracePeriod with master on sets exactly the elements whose rate
\* differs from the clamped target by more than 0.01 to the clamped target.
C1_GraceWindow ==
    [][(WatcherTick /\ manualAt # -1) =>
          LET target == Clamp(TargetRate(currentSettings))
              far(i) == Abs(videos[i] - target) > epsilon
          IN IF now - manualAt < gracePeriod
             THEN videos' = videos
             ELSE Truthy(currentSettings, "masterEnabled") =>
                      videos' = [i \in 1..Len(videos) |->
                                    IF far(i) THEN target ELSE videos[i]]]_vars

\* A pass at or after the end of the window has overwritten a manual selection
\* while two media elements exist.
C1_Witness ==
    /\ lastOp.name = "watcherTick"
    /\ manualAt # -1
    /\ now - manualAt >= gracePeriod
    /\ ~hasUserOverriddenSpeed
    /\ Len(videos) = MaxVideos

-----------------------------------------------------------------------------
(* Stored rates: chrome.storage.sync holds a playbackRate outside the range  *)
(* a media element supports (the store is shared with every installation of  *)
(* the account, and nothing validates what is read from it).  No manual      *)
(* selection is made.  The engine either takes such a rate or raises.        *)

InitStoredRate ==
    InitWith({[playbackRate |-> RateAbove], [playbackRate |-> RateBelow]}, BOOLEAN)

NextStoredRate ==
    \/ InitializeWithRetry(TRUE)
    \/ InitializeExtension("ok", FALSE)
    \/ WatcherTick
    \/ ReapplySettings
    \/ HandleStorageChanges("sync", "ok", FALSE)
    \/ EditorSave("hideHome", FALSE, "ok")
    \/ HostInsert(TRUE, RateScale, FALSE)
    \/ \E i \in 1..MaxVideos : HostRemoveVideo(i)
    \/ \E i \in 1..MaxVideos, rate \in HostRates : HostSetRate(i, rate)
    \/ RemountTimer
    \/ RetryTimer

SpecStoredRate == InitStoredRate /\ [][NextStoredRate]_vars

\* The handlers that write a rate without a manual selection: the timer tick,
\* the new-media re-enforcement, the navigation re-apply, the change re-apply.
AutomaticOps == {"watcherTick", "hostInsert", "reapplySettings", "handleStorageChanges"}

InClampRange(rate) == clampMin <= rate /\ rate <= clampMax

\* C2: every rate an automatic path writes to a media element lies in
\* [0.0625, 16], whatever playbackRate the persistence layer returned: the path
\* neither leaves an element at a rate outside the range nor has a write of
\* such a rate rejected by the element.
C2_AutomaticWritesClamped ==
    [][lastOp'.name \in AutomaticOps =>
          /\ ~lastOp'.threw
          /\ \A i \in 1..Len(videos') :
                 (i <= Len(videos) /\ videos'[i] # videos[i]) => InClampRange(videos'[i])]_vars

-----------------------------------------------------------------------------
(* Custom input: entries are confirmed in the popover's input, by the change *)
(* event or by the Enter key, while the host page inserts media elements and *)
(* changes their rates.                                                      *)

InitInput == InitWith({EmptyStore}, {FALSE})

NextInput ==
    \/ InitializeWithRetry(TRUE)
    \/ InitializeExtension("ok", FALSE)
    \/ WatcherTick
    \/ HandleStorageChanges("sync", "ok", FALSE)
    \/ \E entry \in CustomEntries, mode \in {"ok", "lastError"} :
           CustomInputChange(entry, mode, FALSE)
    \/ \E entry \in CustomEntries, mode \in {"ok", "lastError"} :
           CustomInputEnter(entry, mode, FALSE)
    \/ HostInsert(TRUE, RateScale, FALSE)
    \/ \E i \in 1..MaxVideos, rate \in HostRates : HostSetRate(i, rate)

SpecInput == InitInput /\ [][NextInput]_vars

\* The handlers that confirm a free-form entry.
ConfirmOps == {"customInputChange", "customInputEnter"}

\* C3: with a media element present, a confirmed entry invokes set-rate iff it
\* parses to a number in [0.1, 16]; an entry outside leaves the first element's
\* rate and every other one, the in-memory target, the interaction state and
\* both stores unchanged, and the input then shows the element's live rate.
C3_EntryAcceptedIffInRange ==
    [][(lastOp'.name \in ConfirmOps /\ videos # <<>>) =>
          LET valid == InCustomRange(ParseFloat(lastOp'.entry))
          IN /\ lastOp'.invoked = valid
             /\ ~valid =>
                   /\ UNCHANGED <<videos, currentSettings, lastUserInteractionTimestamp,
                                  hasUserOverriddenSpeed, syncStore, localStore>>
                   /\ lastOp'.shown = NumberToString(videos[1])]_vars

-----------------------------------------------------------------------------
(* Round trip: a valid snapshot is saved to one tier and loaded back.  The   *)
(* primary tier is written as the editor writes it and read by               *)
(* loadSettingsFromStorage when chrome.storage answers; the secondary tier   *)
(* is written by saveToLocalStorageBackup and read when chrome.storage is    *)
(* unavailable, throws or reports an error.  Before the save the stores are  *)
(* empty or hold another snapshot.                                           *)

\* The variables the pure-function specifications leave alone.
controlVars == <<settingsVars, watcherVars, interactionVars, injectVars, bootVars, now,
                 edits, mediaTakesAnyRate, contextInvalidationWarned, pendingChanges>>

\* Rates of valid snapshots: 0.0001, 0.0625, 0.1, 1, 1.75, 2.5, 16 and 20.5.
SnapshotRates == {1, clampMin, customRangeMin, RateScale, 17500, Rate25, clampMax, 205000}

ValidSnapshots ==
    {[k \in Keys |-> IF k = "playbackRate" THEN rate ELSE flags[k]] :
        flags \in [BoolKeys -> BOOLEAN], rate \in SnapshotRates}

\* What the stores hold before the save, in one of the initial states.
EarlierSnapshot == [k \in Keys |-> IF k = "playbackRate" THEN 30000 ELSE ~InitialDefaults[k]]

InitRoundTrip ==
    /\ ProgramInit({EmptyStore}, {FALSE})
    /\ harness \in [kind : {"roundTrip"}, step : {"start"}, tier : {"none"},
                    snapshot : ValidSnapshots, loaded : {EmptyStore}]

\* Both tiers get the earlier snapshot.
RoundTripEarlier ==
    /\ harness.step = "start"
    /\ syncStore = EmptyStore /\ localStore = EmptyStore
    /\ syncStore' = EditorSaveStore(syncStore, EarlierSnapshot, "ok")
    /\ localStore' = SaveToLocalStorageBackup(localStore, EarlierSnapshot, FALSE)
    /\ mirrored' = EarlierSnapshot
    /\ UNCHANGED <<controlVars, domVars, lastOp, harness>>

\* save(snapshot) to one tier.
RoundTripSave(tier) ==
    /\ harness.step = "start"
    /\ IF tier = "primary"
       THEN /\ syncStore' = EditorSaveStore(syncStore, harness.snapshot, "ok")
            /\ UNCHANGED <<localStore, mirrored>>
       ELSE /\ localStore' = SaveToLocalStorageBackup(localStore, harness.snapshot, FALSE)
            /\ mirrored' = harness.snapshot
            /\ UNCHANGED syncStore
    /\ harness' = [harness EXCEPT !.step = "saved", !.tier = tier]
    /\ UNCHANGED <<controlVars, domVars, lastOp>>

\* load() with the backend of the tier that was saved to.
RoundTripLoad(mode) ==
    /\ harness.step = "saved"
    /\ (mode = "ok") = (harness.tier = "primary")
    /\ \E ld \in {LoadSettingsFromStorage(syncStore, localStore, DEFAULT_SETTINGS, mode,
                                            FALSE)} :
          /\ localStore' = ld.localStore
          /\ mirrored' = MirroredAfterLoad(ld, FALSE)
          /\ harness' = [harness EXCEPT !.step = "loaded", !.loaded = ld.settings]
    /\ UNCHANGED <<controlVars, syncStore, domVars, lastOp>>

NextRoundTrip ==
    \/ RoundTripEarlier
    \/ \E tier \in {"primary", "secondary"} : RoundTripSave(tier)
    \/ \E mode \in PrimaryModes : RoundTripLoad(mode)

SpecRoundTrip == InitRoundTrip /\ [][NextRoundTrip]_vars

\* C4: for every valid snapshot, loading after saving returns the identical
\* value for every key, through the primary backend and through the text form
\* of the fallback tier (true/false for a flag, decimal text for the rate).
C4_RoundTrip ==
    (harness.kind = "roundTrip" /\ harness.step = "loaded") =>
        /\ DOMAIN harness.loaded = Keys
        /\ \A k \in Keys : harness.loaded[k] = harness.snapshot[k]

\* A snapshot with a fractional rate and mixed flags has come back from the
\* text form, over the earlier snapshot.
C4_Witness ==
    /\ harness.kind = "roundTrip"
    /\ harness.step = "loaded"
    /\ harness.tier = "secondary"
    /\ harness.loaded.playbackRate = 17500
    /\ harness.loaded.blurThumbs /\ ~harness.loaded.masterEnabled
    /\ syncStore # EmptyStore
    /\ localStore.playbackRate = <<"1", ".", "7", "5">>

-----------------------------------------------------------------------------
(* Idempotence: applyBodyFlags is applied twice in succession with one       *)
(* snapshot.  Before that the host page may have inserted thumbnails and     *)
(* another snapshot may have been applied, so that markers and blurred       *)
(* thumbnails of any kind are in place.                                      *)

\* The snapshots applied: every combination of the flags, and objects that
\* lack keys (a missing key reads as undefined).
AppliedSnapshots ==
    {[k \in Keys |-> IF k = "playbackRate" THEN RateScale ELSE flags[k]] :
        flags \in [BoolKeys -> BOOLEAN]}
    \cup {EmptyStore, [masterEnabled |-> TRUE], [masterEnabled |-> TRUE, blurThumbs |-> TRUE]}

\* The snapshots applied before: everything on, the defaults, everything off.
EarlierApplied == {[k \in Keys |-> IF k = "playbackRate" THEN RateScale ELSE TRUE],
                   InitialDefaults, EmptyStore}

InitIdempotence ==
    /\ ProgramInit({EmptyStore}, {FALSE})
    /\ harness \in [kind : {"idempotence"}, snapshot : AppliedSnapshots, count : {0},
                    earlier : {FALSE}, once : {[bodyAttrs |-> {}, images |-> images]}]

\* The host page inserts a thumbnail before the snapshot is applied.
IdempotenceInsert ==
    /\ harness.kind = "idempotence" /\ harness.count = 0
    /\ HostInsert(FALSE, RateScale, TRUE)

\* applyBodyFlags(earlier), before the snapshot is applied.
IdempotenceEarlier(earlier) ==
    /\ harness.count = 0 /\ ~harness.earlier
    /\ \E flags \in {ApplyBodyFlags(earlier, bodyAttrs, images)} :
          /\ bodyAttrs' = flags.bodyAttrs
          /\ images' = flags.images
    /\ harness' = [harness EXCEPT !.earlier = TRUE]
    /\ UNCHANGED <<controlVars, storeVars, videos, lastOp>>

\* applyBodyFlags(snapshot), for the first and for the second time.
IdempotenceApply ==
    /\ harness.count < 2
    /\ \E flags \in {ApplyBodyFlags(harness.snapshot, bodyAttrs, images)} :
          /\ bodyAttrs' = flags.bodyAttrs
          /\ images' = flags.images
          /\ harness' = [harness EXCEPT !.count = @ + 1,
                                        !.once = IF harness.count = 0 THEN flags ELSE @]
    /\ UNCHANGED <<controlVars, storeVars, videos, lastOp>>

NextIdempotence ==
    \/ IdempotenceInsert
    \/ \E earlier \in EarlierApplied : IdempotenceEarlier(earlier)
    \/ IdempotenceApply

SpecIdempotence == InitIdempotence /\ [][NextIdempotence]_vars

\* C7: for every snapshot, applyBodyFlags applied twice in succession leaves
\* the same set of document markers and the same blur-marked thumbnails as
\* applied once.
C7_ApplyIdempotent ==
    (harness.kind = "idempotence" /\ harness.count = 2) =>
        /\ bodyAttrs = harness.once.bodyAttrs
        /\ images = harness.once.images

\* The second application has run with blur on, over thumbnails the host page
\* inserted and markers an earlier snapshot left.
C7_Witness ==
    /\ harness.kind = "idempotence"
    /\ harness.count = 2
    /\ harness.earlier
    /\ Truthy(harness.snapshot, "masterEnabled") /\ Truthy(harness.snapshot, "blurThumbs")
    /\ ~Truthy(harness.snapshot, "hideHome")
    /\ images.blurred = MaxImages
    /\ "blurThumbs" \in bodyAttrs /\ "hideHome" \notin bodyAttrs

-----------------------------------------------------------------------------
(* Flags: the document markers and the thumbnail blur against the snapshot.  *)
(* chrome.storage.sync starts empty, with blur and the guide flag set, or    *)
(* with master off; the editor sets or clears a flag; the host page inserts  *)
(* thumbnails and media elements; a rate is selected, so that a change can   *)
(* arrive inside and outside the 3 s window.                                 *)

InitFlags ==
    InitWith({EmptyStore, [blurThumbs |-> TRUE, hideGuide |-> TRUE],
              [masterEnabled |-> FALSE]}, {FALSE})

NextFlags ==
    \/ InitializeWithRetry(TRUE)
    \/ InitializeExtension("ok", FALSE)
    \/ WatcherTick
    \/ ReapplySettings
    \/ HandleStorageChanges("sync", "ok", FALSE)
    \/ PresetClick(Rate25, "ok", FALSE)
    \/ \E id \in {"masterEnabled", "blurThumbs", "hideHome"}, val \in BOOLEAN :
           EditorSave(id, val, "ok")
    \/ \E withVideo \in BOOLEAN : HostInsert(withVideo, RateScale, ~withVideo)
    \/ BlurTimer
    \/ AdvanceClock

SpecFlags == InitFlags /\ [][NextFlags]_vars

\* The handlers that reconcile the document with the snapshot.
ReconcileOps == {"initializeExtension", "reapplySettings", "handleStorageChanges"}

\* The markers a snapshot asks for.
ExpectedMarkers(settings) ==
    IF Truthy(settings, "masterEnabled")
    THEN {MasterAttr} \cup {k \in FlagKeys : Truthy(settings, k)}
    ELSE {}

\* C8: when a preference change turns master off (it was on in the snapshot
\* the handler replaced), then on completion of the handler no master marker
\* and no feature marker is present, no thumbnail carries the blur marker and
\* every media element's rate is 1, inside the grace window as outside it.
C8_MasterOffClearsAll ==
    (/\ lastOp.name = "handleStorageChanges"
     /\ lastOp.wasEnabled
     /\ ~Truthy(currentSettings, "masterEnabled")) =>
        /\ bodyAttrs = {}
        /\ images.blurred = 0
        /\ \A i \in 1..Len(videos) : videos[i] = RateScale

\* Master went off inside the window of a manual selection, with blur set in
\* the snapshot, a thumbnail and two media elements on the page.
C8_Witness ==
    /\ lastOp.name = "handleStorageChanges"
    /\ lastOp.wasEnabled /\ lastOp.inGrace
    /\ ~Truthy(currentSettings, "masterEnabled")
    /\ Truthy(currentSettings, "blurThumbs")
    /\ images.plain = MaxImages
    /\ Len(videos) = MaxVideos

\* C9: after initialization and after every navigation re-apply and
\* preference-change handling, the master marker is present iff master is true
\* in the current snapshot, and each feature marker is present iff master and
\* that feature's flag are both true in it.
C9_MarkersMatchSnapshot ==
    lastOp.name \in ReconcileOps => bodyAttrs = ExpectedMarkers(currentSettings)

\* A change has been handled with master on, one default-on feature cleared
\* and the others kept.
C9_Witness ==
    /\ lastOp.name = "handleStorageChanges"
    /\ Truthy(currentSettings, "masterEnabled")
    /\ ~Truthy(currentSettings, "hideHome")
    /\ "hideHome" \notin bodyAttrs
    /\ {MasterAttr, "hideShorts"} \subseteq bodyAttrs

\* The default snapshot has been loaded and applied.
DefaultsApplied ==
    lastOp.name \in {"initializeExtension", "handleStorageChanges"}
    /\ lastOp.loaded = InitialDefaults

\* C10 as stated: with the default snapshot loaded and applied, no thumbnail
\* carries the blur marker and all feature markers are present.
C10_AllFeatureMarkers ==
    DefaultsApplied => images.blurred = 0 /\ FlagKeys \subseteq bodyAttrs

\* C10: with the default snapshot loaded and applied, no thumbnail carries the
\* blur marker, and the markers present are exactly the master marker and the
\* markers of the six features that default to on; the markers of hideGuide
\* and blurThumbs, which default to off, are absent.
C10_DefaultFeatureMarkers ==
    DefaultsApplied =>
        /\ images.blurred = 0
        /\ bodyAttrs = {MasterAttr, "hideHome", "hideShorts", "hideComments",
                        "hideSidebar", "hideEndscreen", "hideRecs"}

\* The defaults were applied at initialization with a thumbnail on the page.
C10_Witness ==
    /\ DefaultsApplied
    /\ lastOp.name = "initializeExtension"
    /\ images.plain = MaxImages

-----------------------------------------------------------------------------
(* Storage: loads and rate saves under every answer of the two backends.     *)
(* Each call to chrome.storage answers normally, is unavailable, throws, or  *)
(* reports lastError; each use of localStorage works or raises.              *)

InitStorage == InitWith({EmptyStore, [hideHome |-> FALSE]}, {FALSE})

NextStorage ==
    \/ \E probeOk \in BOOLEAN : InitializeWithRetry(probeOk)
    \/ \E probeOk \in BOOLEAN : TryInit(probeOk)
    \/ \E mode \in PrimaryModes, lsThrows \in BOOLEAN : InitializeExtension(mode, lsThrows)
    \/ \E mode \in PrimaryModes, lsThrows \in BOOLEAN : HandleStorageChanges("sync", mode, lsThrows)
    \/ \E mode \in PrimaryModes, lsThrows \in BOOLEAN : PresetClick(Rate25, mode, lsThrows)
    \/ ReapplySettings
    \/ EditorSave("hideShorts", FALSE, "ok")
    \/ HostInsert(TRUE, RateScale, FALSE)
    \/ \E i \in 1..Len(videos) : HostSetRate(i, Rate25)
    \/ RetryTimer

SpecStorage == InitStorage /\ [][NextStorage]_vars

\* The handlers that call loadSettingsFromStorage.
LoadOps == {"initializeExtension", "handleStorageChanges"}

\* The handlers that call setVideoSpeed.
SetRateOps == {"presetClick", "customInputChange", "customInputEnter"}

\* C5: when the primary backend is unavailable or reports an error on read,
\* the load returns for each schema key the value mirrored in the secondary
\* backend if one was written, otherwise the schema default.  Stated for the
\* loads that could read the secondary backend.
C5_FallbackReturnsMirrored ==
    (lastOp.name \in LoadOps /\ lastOp.fallback /\ lastOp.secondaryRead) =>
        \A k \in Keys :
            /\ k \in DOMAIN lastOp.loaded
            /\ lastOp.loaded[k] = IF Has(mirrored, k) THEN mirrored[k]
                                  ELSE InitialDefaults[k]

C11_NewMediaResetsInteraction ==
    (lastOp.name = "hostInsert" /\ lastOp.invoked) =>
        ~hasUserOverriddenSpeed /\ lastUserInteractionTimestamp = 0

\* A media element was inserted while a manual selection was in its grace
\* window and master was off.
C11_Witness ==
    /\ lastOp.name = "hostInsert" /\ lastOp.invoked /\ lastOp.inGrace
    /\ ~Truthy(currentSettings, "masterEnabled")
    /\ ~hasUserOverriddenSpeed /\ lastUserInteractionTimestamp = 0

\* C12: hasUserOverriddenSpeed changes from false to true only in a set-rate
\* operation that passes validation (a media element exists, the rate is
\* positive), and from true to false only in an enforcement pass that writes a
\* rate to some media element after the grace period has elapsed, or on
\* new-media detection; no other operation changes it.
C12_OverrideTransitions ==
    [][/\ (~hasUserOverriddenSpeed /\ hasUserOverriddenSpeed') =>
              /\ lastOp'.name \in SetRateOps /\ lastOp'.invoked
              /\ videos # <<>>
              /\ \E i \in 1..Len(videos') : videos'[i] > 0 /\ videos'[i] = RateOf(currentSettings')
       /\ (hasUserOverriddenSpeed /\ ~hasUserOverriddenSpeed') =>
              \/ /\ lastOp'.name = "watcherTick"
                 /\ Elapsed >= gracePeriod
                 /\ \E i \in 1..Len(videos) : videos'[i] # videos[i]
              \/ lastOp'.name = "hostInsert" /\ lastOp'.invoked]_vars

\* An enforcement tick has cleared the flag a manual selection had set.
C12_Witness ==
    /\ lastOp.name = "watcherTick"
    /\ lastOp.hadOverride /\ ~hasUserOverriddenSpeed
    /\ manualAt # -1 /\ now - manualAt >= gracePeriod

-----------------------------------------------------------------------------
(* Controls: the injected button, popover and style node against the master  *)
(* flag.  The host page mounts and removes its control bar and its media     *)
(* elements; the editor sets or clears the master flag; the re-mount timer   *)
(* of new-media detection and the retry timer of the button run when due.    *)

InitControls == InitWith({EmptyStore, [masterEnabled |-> FALSE]}, {FALSE})

NextControls ==
    \/ InitializeWithRetry(TRUE)
    \/ InitializeExtension("ok", FALSE)
    \/ ReapplySettings
    \/ HandleStorageChanges("sync", "ok", FALSE)
    \/ \E val \in BOOLEAN : EditorSave("masterEnabled", val, "ok")
    \/ HostInsert(TRUE, RateScale, FALSE)
    \/ \E i \in 1..Len(videos) : HostRemoveVideo(i)
    \/ HostMountControlBar
    \/ HostRemoveControlBar
    \/ RemountTimer
    \/ RetryTimer

SpecControls == InitControls /\ [][NextControls]_vars

\* The handler that has just run called injectSpeedControls.
MountInvoked ==
    \/ lastOp'.name = "remountTimer"
    \/ /\ lastOp'.name = "handleStorageChanges" /\ ~lastOp'.threw
       /\ ~lastOp'.wasEnabled /\ Truthy(currentSettings', "masterEnabled")

\* The handler that has just run called cleanupSpeedControls.
UnmountInvoked ==
    /\ lastOp'.name = "handleStorageChanges" /\ ~lastOp'.threw
    /\ lastOp'.wasEnabled /\ ~Truthy(currentSettings', "masterEnabled")

\* C13: injectSpeedControls invoked while isSpeedControlsInjected is set adds
\* no button, popover or style node; cleanupSpeedControls leaves no injected
\* button, popover or style node in the document and clears the flag.
C13_MountIdempotentUnmountClears ==
    [][/\ (MountInvoked /\ isSpeedControlsInjected) => controls' = controls
       /\ UnmountInvoked =>
              /\ controls'.buttons = 0 /\ ~controls'.menu /\ ~controls'.styles
              /\ ~isSpeedControlsInjected']_vars

\* The controls, button included, were mounted when master went off, and are
\* gone.
C13_Witness ==
    /\ lastOp.name = "handleStorageChanges" /\ lastOp.wasEnabled
    /\ ~Truthy(currentSettings, "masterEnabled")
    /\ lastOp.hadControls.mounted /\ lastOp.hadControls.buttons > 0
    /\ controls.buttons = 0 /\ ~controls.menu /\ ~controls.styles
    /\ ~isSpeedControlsInjected

\* C14: on each navigation-finished or page-data-updated signal, the resulting
\* markers and the resulting rate of every media element equal those produced
\* by applyBodyFlags on the current snapshot followed by one enforcement tick
\* (same master check, same grace-window skip, same clamp, all media elements),
\* and the current snapshot is left unchanged.
C14_ReapplyIsFlagsPlusTick ==
    [][lastOp'.name = "reapplySettings" =>
          /\ ~lastOp'.threw
          /\ bodyAttrs' = ApplyBodyFlags(currentSettings, bodyAttrs, images).bodyAttrs
          /\ videos' = ApplyPlaybackRateToVideos(TargetRate(currentSettings),
                                                 currentSettings, videos,
                                                 hasUserOverriddenSpeed, Elapsed).videos
          /\ currentSettings' = currentSettings]_vars

\* C15: when a preference change is handled at time t after a manual selection
\* at time T, the handler skips rate re-application (markers only) exactly when
\* an enforcement tick at t would skip: the override is active and
\* t - T < gracePeriod; otherwise it fully re-applies the settings.
C15_ChangeHonoursGracePeriod ==
    (lastOp.name = "handleStorageChanges" /\ manualAt # -1) =>
        (lastOp.inGrace <=> (lastOp.hadOverride /\ now - manualAt < gracePeriod))

-----------------------------------------------------------------------------
(* Areas: change notifications of every storage area.  The editor changes a  *)
(* flag in the sync area; notifications of the local and managed areas       *)
(* arrive at any time after the listener is installed.                       *)

OtherAreas == {"local", "managed"}

InitAreas == InitWith({EmptyStore}, {FALSE})

NextAreas ==
    \/ InitializeWithRetry(TRUE)
    \/ InitializeExtension("ok", FALSE)
    \/ WatcherTick
    \/ \E area \in OtherAreas \cup {"sync"} : HandleStorageChanges(area, "ok", FALSE)
    \/ PresetClick(Rate25, "ok", FALSE)
    \/ \E id \in {"masterEnabled", "blurThumbs"} : EditorSave(id, id = "blurThumbs", "ok")
    \/ \E withVideo \in BOOLEAN : HostInsert(withVideo, RateScale, ~withVideo)
    \/ \E i \in 1..Len(videos) : HostSetRate(i, Rate25)
    \/ BlurTimer
    \/ RemountTimer

SpecAreas == InitAreas /\ [][NextAreas]_vars

\* C16: a change notification whose area is not the sync area changes nothing:
\* no load is started, and the current snapshot, the markers, the media rates,
\* the interaction state, the enforcement timer and the mounted flag are all
\* unchanged.
C16_OtherAreaIgnored ==
    [][(lastOp'.name = "handleStorageChanges" /\ lastOp'.area # "sync") =>
          /\ lastOp'.loaded = EmptyStore /\ ~lastOp'.fallback
          /\ UNCHANGED <<settingsVars, storeVars, domVars, interactionVars,
                         watcherVars, injectVars, pendingChanges>>]_vars

\* A notification of the local area has been handled while a change of the
\* sync area that turns master off was still pending and a manual selection
\* was active.
C16_Witness ==
    /\ lastOp.name = "handleStorageChanges" /\ lastOp.area = "local"
    /\ pendingChanges > 0
    /\ Truthy(currentSettings, "masterEnabled")
    /\ Has(syncStore, "masterEnabled") /\ ~syncStore["masterEnabled"]
    /\ hasUserOverriddenSpeed
    /\ bodyAttrs # {} /\ videos # <<>>

-----------------------------------------------------------------------------
(* Host rates: the rates the host page gives a media element, 0 included (a  *)
(* media element accepts a playbackRate of 0), against the snapshot's rate.  *)

AnyHostRates == {0, RateScale, Rate25}

InitHostRates == InitWith({EmptyStore}, {FALSE})

NextHostRates ==
    \/ InitializeWithRetry(TRUE)
    \/ InitializeExtension("ok", FALSE)
    \/ WatcherTick
    \/ ReapplySettings
    \/ HandleStorageChanges("sync", "ok", FALSE)
    \/ PresetClick(Rate25, "ok", FALSE)
    \/ EditorSave("hideHome", FALSE, "ok")
    \/ \E rate \in AnyHostRates : HostInsert(TRUE, rate, FALSE)
    \/ \E i \in 1..Len(videos) : HostRemoveVideo(i)
    \/ \E i \in 1..Len(videos), rate \in AnyHostRates : HostSetRate(i, rate)
    \/ RemountTimer
    \/ RetryTimer

SpecHostRates == InitHostRates /\ [][NextHostRates]_vars

\* C17: in every reachable state the current snapshot's playbackRate is
\* strictly positive, for any rate the host page gives the media element.
C17_SnapshotRatePositive ==
    Has(currentSettings, "playbackRate") /\ currentSettings["playbackRate"] > 0

-----------------------------------------------------------------------------
(* Saves: the set-rate save of the page script and the save of the editor    *)
(* panel, under every answer of chrome.storage and of localStorage.          *)

InitSaves == InitWith({EmptyStore}, {FALSE})

NextSaves ==
    \/ InitializeWithRetry(TRUE)
    \/ InitializeExtension("ok", FALSE)
    \/ \E mode \in {"ok", "lastError"} : HandleStorageChanges("sync", mode, FALSE)
    \/ \E mode \in PrimaryModes, lsThrows \in BOOLEAN : PresetClick(Rate25, mode, lsThrows)
    \/ \E mode \in PrimaryModes, lsThrows \in BOOLEAN :
           CustomInputChange(<<"0", ".", "1">>, mode, lsThrows)
    \/ \E id \in {"hideHome", "blurThumbs"}, mode \in PrimaryModes :
           EditorSave(id, id = "blurThumbs", mode)
    \/ HostInsert(TRUE, RateScale, FALSE)
    \/ RemountTimer
    \/ RetryTimer

SpecSaves == InitSaves /\ [][NextSaves]_vars

\* The handlers that save a partial update.
SaveOps == SetRateOps \cup {"editorSave"}

\* C18: every save of a partial update falls through the tier chain: if the
\* capability probe fails, the primary call throws, or the primary backend
\* reports an error after the call, the same keys and values are in the
\* secondary backend as text afterwards (the secondary backend working); this
\* holds for the set-rate save and for the editor's save.
C18_SaveFallsThrough ==
    (/\ lastOp.name \in SaveOps
     /\ lastOp.primaryFailed /\ ~lastOp.secondaryFailed) =>
        \A k \in DOMAIN lastOp.saved :
            Has(localStore, k) /\ localStore[k] = ToText(k, lastOp.saved[k])

\* C19: after any interleaving of insertions, delayed blur timers and
\* preference changes, once all pending timers have fired no thumbnail carries
\* the blur marker unless master and blurThumbs are both on in the current
\* snapshot; a delayed blur scheduled while blur was on blurs nothing if blur
\* or master has been turned off before it fires.
C19_NoBlurUnlessEnabled ==
    (timers.blur = 0 /\ images.blurred > 0) =>
        (Truthy(currentSettings, "masterEnabled") /\ Truthy(currentSettings, "blurThumbs"))

\* C20: in every state after initialization, an injected button or popover
\* exists, or the mounted flag is set, only if the master flag of the current
\* snapshot is on, also when a re-mount timer or an injection retry scheduled
\* while master was on fires after master has been turned off.
C20_ControlsOnlyWhenEnabled ==
    (phase = "running"
     /\ (controls.buttons > 0 \/ controls.menu \/ isSpeedControlsInjected)) =>
        Truthy(currentSettings, "masterEnabled")

-----------------------------------------------------------------------------
(* Replacement: the host page replaces its player while master is on.  The   *)
(* timers of the script fire when due (setTimeout callbacks run once their   *)
(* delay has passed) and startup runs to its end; the host page and the user *)
(* act or not as they please.                                                *)

InitReplace == InitWith({EmptyStore}, {FALSE})

NextReplace ==
    \/ InitializeWithRetry(TRUE)
    \/ InitializeExtension("ok", FALSE)
    \/ WatcherTick
    \/ ReapplySettings
    \/ HandleStorageChanges("sync", "ok", FALSE)
    \/ PresetClick(Rate25, "ok", FALSE)
    \/ EditorSave("hideHome", FALSE, "ok")
    \/ HostInsert(TRUE, RateScale, FALSE)
    \/ HostMountControlBar
    \/ HostReplacePlayer
    \/ RemountTimer
    \/ RetryTimer

SpecReplace ==
    /\ InitReplace /\ [][NextReplace]_vars
    /\ WF_vars(InitializeWithRetry(TRUE))
    /\ WF_vars(InitializeExtension("ok", FALSE))
    /\ WF_vars(RemountTimer)
    /\ WF_vars(RetryTimer)

\* C21: if master is on and the host page replaces its player (removing the
\* injected button and inserting a new media element with a new control bar),
\* then the speed button is eventually present again in the control bar.
C21_ButtonReturns ==
    (/\ lastOp.name = "hostReplacePlayer" /\ lastOp.invoked
     /\ lastOp.hadControls.buttons > 0
     /\ Truthy(currentSettings, "masterEnabled"))
        ~> (controls.buttons > 0)

\* C22: a manually selected rate that went to the secondary backend because
\* the primary write failed is the rate the next load returns, also when the
\* primary backend is readable again by then.
C22_FallbackRateSurvives ==
    [][(/\ lastOp.name \in SetRateOps
        /\ lastOp.primaryFailed /\ ~lastOp.secondaryFailed
        /\ lastOp'.name \in LoadOps) =>
          RateOf(lastOp'.loaded) = lastOp.saved["playbackRate"]]_vars

-----------------------------------------------------------------------------
(* Fallback read: loadFromLocalStorageFallback on texts localStorage can     *)
(* hold, written by this script or not, and on the defaults object as it is  *)
(* or after an in-place write to its playbackRate.                           *)

Unset == <<"unset">>
RateTexts == {<<"2", ".", "5">>, <<"0">>, <<"-", "1">>, <<"a", "b", "c">>, <<>>}
FlagTexts == {BooleanToString(TRUE), BooleanToString(FALSE), <<"y", "e", "s">>,
              <<"T", "R", "U", "E">>, <<>>}
ReadKeys == {"playbackRate", "hideHome", "blurThumbs"}

\* localStorage holding the given text, or nothing, under each of ReadKeys.
StoreOf(choice) == [k \in {key \in ReadKeys : choice[key] # Unset} |-> choice[k]]

FallbackStores ==
    {StoreOf([playbackRate |-> r, hideHome |-> h, blurThumbs |-> b]) :
        r \in RateTexts \cup {Unset}, h \in FlagTexts \cup {Unset},
        b \in FlagTexts \cup {Unset}}

DefaultsObjects == {InitialDefaults, Put(InitialDefaults, "playbackRate", Rate25)}

InitFallbackRead ==
    /\ ProgramInit({EmptyStore}, {FALSE})
    /\ harness \in [kind : {"fallbackRead"}, step : {"start"}, store : FallbackStores,
                    defaults : DefaultsObjects, result : {EmptyStore}]

\* loadFromLocalStorageFallback() on the store and the defaults drawn.
FallbackRead ==
    /\ harness.kind = "fallbackRead" /\ harness.step = "start"
    /\ harness' = [harness EXCEPT
                      !.step = "read",
                      !.result = LoadFromLocalStorageFallback(harness.store,
                                                              harness.defaults,
                                                              FALSE).settings]
    /\ UNCHANGED <<controlVars, storeVars, domVars, lastOp>>

NextFallbackRead == FallbackRead

SpecFallbackRead == InitFallbackRead /\ [][NextFallbackRead]_vars

\* The stored rate text is rejected: it parses to NaN or to a value <= 0.
RateRejected(text) == ParseFloat(text).isNaN \/ ParseFloat(text).value <= 0

WatcherRestarted ==
    /\ ~lastOp.threw
    /\ \/ lastOp.name = "initializeExtension"
       \/ lastOp.name = "handleStorageChanges" /\ lastOp.area = "sync"

\* C25: in every reachable state at most one enforcement interval is active:
\* each restart cancels the previous interval before it creates a new one, and
\* after a restart performed while master is off no interval is active.
C25_OneEnforcementTimer ==
    /\ Cardinality(activeIntervals) <= 1
    /\ (WatcherRestarted /\ ~Truthy(currentSettings, "masterEnabled")) =>
           activeIntervals = {}

\* A restart with master off has cancelled the interval a restart with master
\* on had created.
C25_Witness ==
    /\ WatcherRestarted
    /\ lastOp.name = "handleStorageChanges" /\ lastOp.wasEnabled
    /\ ~Truthy(currentSettings, "masterEnabled")
    /\ playbackWatcherIntervalId # 0
    /\ activeIntervals = {}

\* C26: an injection-retry chain reschedules itself only while no injected
\* button exists and stops as soon as the button is found; the document never
\* contains more than one injected button, even when several mounts or retry
\* chains overlap.
C26_RetryStopsOneButton ==
    [][/\ controls'.buttons <= 1
       /\ lastOp'.name = "retryTimer" =>
              ((timers'.retry = timers.retry) <=> (controls'.buttons = 0))]_vars

\* Two chains overlapped; the first has inserted the button, the second has
\* found it and stopped.
C26_Witness ==
    /\ lastOp.name = "retryTimer"
    /\ lastOp.hadControls.buttons = 1
    /\ controls.buttons = 1
    /\ timers.retry = 0

-----------------------------------------------------------------------------
(* Set-rate calls: setVideoSpeed with speeds that are and are not valid,     *)
(* with and without a media element on the page, under every answer of the   *)
(* two backends.                                                             *)

CallSpeeds == {Number(0), Number(-RateScale), NotANumber, Number(Rate25)}

InitSetRate == InitWith({EmptyStore}, {FALSE})

NextSetRate ==
    \/ InitializeWithRetry(TRUE)
    \/ InitializeExtension("ok", FALSE)
    \/ WatcherTick
    \/ HandleStorageChanges("sync", "ok", FALSE)
    \/ \E parsed \in CallSpeeds, mode \in PrimaryModes, lsThrows \in BOOLEAN :
           SetVideoSpeedCall(parsed, mode, lsThrows)
    \/ HostInsert(TRUE, RateScale, FALSE)
    \/ \E i \in 1..Len(videos) : HostRemoveVideo(i)
    \/ RemountTimer
    \/ RetryTimer

SpecSetRate == InitSetRate /\ [][NextSetRate]_vars

\* C27: a set-rate operation invoked when no media element exists, or with a
\* speed that is not a strictly positive number, is a no-op:
\* lastUserInteractionTimestamp, hasUserOverriddenSpeed, the current
\* snapshot's rate and both storage tiers are unchanged.
C27_InvalidSetRateIsNoOp ==
    [][(/\ lastOp'.name = "setVideoSpeed"
        /\ \/ videos = <<>>
           \/ lastOp'.speed.isNaN
           \/ lastOp'.speed.value <= 0) =>
          UNCHANGED <<lastUserInteractionTimestamp, hasUserOverriddenSpeed,
                      currentSettings, syncStore, localStore, videos>>]_vars

\* A call with speed 0 has left a selection made earlier as it was.
C27_Witness ==
    /\ lastOp.name = "setVideoSpeed"
    /\ lastOp.speed = Number(0)
    /\ videos # <<>>
    /\ hasUserOverriddenSpeed
    /\ RateOf(currentSettings) = Rate25

\* C28: across any sequence of mount, unmount and re-mount operations, the
\* document-level outside-click listener is installed at most once.
C28_OutsideClickOnce ==
    controls.clickListeners <= 1

\* The controls were mounted at startup, unmounted when master went off, and
\* have been mounted again by the re-mount timer.
C28_Witness ==
    /\ lastOp.name = "remountTimer"
    /\ ~lastOp.hadControls.mounted
    /\ isSpeedControlsInjected /\ controls.menu
    /\ ~Truthy(currentSettings, "masterEnabled")
    /\ controls.clickListeners = 1

-----------------------------------------------------------------------------
(* Epsilon: enforcement against rates close to the target.  The host page    *)
(* gives media elements rates half an epsilon and two epsilons away from the *)
(* selected rate.                                                            *)

NearRates == {RateScale, Rate25 + epsilon \div 2, Rate25 + 2 * epsilon}

InitEpsilon == InitWith({EmptyStore}, {FALSE})

NextEpsilon ==
    \/ InitializeWithRetry(TRUE)
    \/ InitializeExtension("ok", FALSE)
    \/ WatcherTick
    \/ HandleStorageChanges("sync", "ok", FALSE)
    \/ PresetClick(Rate25, "ok", FALSE)
    \/ \E rate \in NearRates : HostInsert(TRUE, rate, FALSE)
    \/ \E i \in 1..Len(videos), rate \in NearRates : HostSetRate(i, rate)
    \/ RemountTimer
    \/ RetryTimer
    \/ AdvanceClock

SpecEpsilon == InitEpsilon /\ [][NextEpsilon]_vars

\* The clamped target of an enforcement tick.
ClampedTarget == Clamp(TargetRate(currentSettings))

-----------------------------------------------------------------------------
(* Startup: the probe of the primary backend answers either way at every    *)
(* attempt, the tryInit timer fires when due or late, and the load meets    *)
(* every answer of the two backends.                                         *)

InitStartup == InitWith({EmptyStore, [masterEnabled |-> FALSE]}, {FALSE})

NextStartup ==
    \/ \E probeOk \in BOOLEAN : InitializeWithRetry(probeOk)
    \/ \E probeOk \in BOOLEAN : TryInit(probeOk)
    \/ TryInitLate
    \/ \E mode \in PrimaryModes, lsThrows \in BOOLEAN : InitializeExtension(mode, lsThrows)
    \/ WatcherTick
    \/ PresetClick(Rate25, "ok", FALSE)
    \/ HandleStorageChanges("sync", "ok", FALSE)
    \/ HostInsert(TRUE, RateScale, FALSE)
    \/ RemountTimer
    \/ RetryTimer

\* startExtension calls initializeWithRetry, a scheduled tryInit timer fires,
\* and the load awaited by initializeExtension settles.
SpecStartup ==
    /\ InitStartup /\ [][NextStartup]_vars
    /\ WF_vars(\E probeOk \in BOOLEAN : InitializeWithRetry(probeOk))
    /\ WF_vars(\E probeOk \in BOOLEAN : TryInit(probeOk))
    /\ WF_vars(\E mode \in PrimaryModes, lsThrows \in BOOLEAN :
                  InitializeExtension(mode, lsThrows))

\* The steps of startup that probe the primary backend.
ProbeOps == {"initializeWithRetry", "tryInit"}

\* C30: startup calls initializeExtension exactly once.  It is called at once,
\* with no retry counted and no timer scheduled, when the first probe of the
\* primary backend succeeds; otherwise at most 3 retries are counted, each
\* scheduled 100 ms after the attempt before it and run no earlier than that,
\* and an attempt whose probe fails calls it only when 3 retries have been
\* counted.  Whatever the probes answer, initializeExtension is eventually
\* called and its body runs.
C30_InitializesOnce ==
    /\ [](initCalls <= 1 /\ retryCount <= maxRetries)
    /\ [][/\ (lastOp'.name = "initializeWithRetry" /\ ~lastOp'.primaryFailed) =>
              (initCalls' = 1 /\ retryCount' = 0 /\ tryInitDue' = 0 /\ now' = now)
          /\ (lastOp'.name \in ProbeOps /\ lastOp'.primaryFailed /\ initCalls' # initCalls) =>
              (retryCount' = maxRetries /\ tryInitDue' = 0)
          /\ (lastOp'.name \in ProbeOps /\ tryInitDue' # 0) =>
              (tryInitDue' = now' + retryDelay /\ retryCount' = retryCount + 1)
          /\ lastOp'.name = "tryInit" => now' >= tryInitDue
          /\ lastOp'.name = "initializeExtension" => initCalls = 1]_vars
    /\ <>(initCalls = 1 /\ lastOp.name = "initializeExtension")

\* The primary backend was unavailable at every probe and at the load: three
\* retries were counted, 300 ms or more have passed, and the extension runs on
\* the fallback tier without a storage listener.
C30_Witness ==
    /\ initCalls = 1
    /\ retryCount = maxRetries
    /\ now >= StartTime + maxRetries * retryDelay
    /\ phase = "running"
    /\ lastOp.name = "initializeExtension" /\ lastOp.fallback
    /\ ~listening.storage
    /\ listening.navigation

-----------------------------------------------------------------------------
(* Both backends failing: every call the page script makes to chrome.storage *)
(* is unavailable, throws or reports lastError, and every use of             *)
(* localStorage raises.  The editor panel, a page of its own, changes one    *)
(* flag, which notifies the page script when its listener is installed.      *)

FailingModes == PrimaryModes \ {"ok"}

InitBothFail == InitWith({EmptyStore}, {FALSE})

NextBothFail ==
    \/ \E probeOk \in BOOLEAN : InitializeWithRetry(probeOk)
    \/ TryInit(FALSE)
    \/ \E mode \in FailingModes : InitializeExtension(mode, TRUE)
    \/ \E mode \in FailingModes : HandleStorageChanges("sync", mode, TRUE)
    \/ \E mode \in FailingModes : PresetClick(Rate25, mode, TRUE)
    \/ ReapplySettings
    \/ WatcherTick
    \/ EditorSave("hideShorts", FALSE, "ok")
    \/ \E rate \in {RateScale, Rate25} : HostInsert(TRUE, rate, FALSE)
    \/ \E i \in 1..Len(videos) : HostSetRate(i, Rate25)
    \/ RemountTimer
    \/ RetryTimer

SpecBothFail == InitBothFail /\ [][NextBothFail]_vars

\* C31: while both storage backends fail on every call, the DEFAULT_SETTINGS
\* table keeps its initial contents, and every load returns exactly the schema
\* defaults (masterEnabled and the six hide flags true, hideGuide and
\* blurThumbs false, playbackRate 1), whatever manual rate selection or
\* navigation re-apply came before it.
C31_FailingLoadsReturnDefaults ==
    /\ DEFAULT_SETTINGS = InitialDefaults
    /\ lastOp.name \in LoadOps => lastOp.loaded = InitialDefaults

====
